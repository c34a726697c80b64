-------------------------- MODULE MCDirectorySource --------------------------
(***************************************************************************)
(* DirectorySource on small instances.                                     *)
(***************************************************************************)
EXTENDS DirectorySource

Mode(lazy, immutable, polls) ==
  [lazy |-> lazy, immutable |-> immutable, polls |-> polls]

Eager == {Mode(FALSE, FALSE, TRUE)}
Polling == Eager \cup {Mode(TRUE, FALSE, TRUE)}

\* An eager source that does not poll is one that happens not to; a lazy one
\* need not keep the live file open.
AllModes == Polling \cup {Mode(TRUE, FALSE, FALSE), Mode(FALSE, TRUE, FALSE)}

\* Nothing is explored after the last teardown, which excuses a source from
\* everything.
Watched == sessions = MaxSessions => open \/ rpc # "idle" \/ pending # {}

\* Restarts are explored without deletions, for an eager source, and for an
\* immutable one until it is opened.
Explored == /\ Watched
            /\ runs = 2 => ~mode.lazy /\ gone = 0
=============================================================================
