------------------------------- MODULE Source -------------------------------
(***************************************************************************)
(* What an update of machine images relies on when it calls GetVersions of *)
(* a source, whichever source is configured: a call collects answers, one  *)
(* of each thing it asks, and returns once, either the images that all the *)
(* answers together entail, or an error that some answer accounts for.     *)
(*                                                                         *)
(* GlanceSource asks regions and OciSource asks tags; both implement this. *)
(***************************************************************************)
CONSTANTS
    Conclusive(_, _),    \* Conclusive(config, answers): all that was asked answered,
                         \* some of it with more than an error, and nothing ended early
    Images(_, _),        \* the images that these answers entail
    Excused(_, _)        \* these answers account for an error

VARIABLES
    config,              \* how the source is configured, and what a call asks
    collecting,          \* a call is under way
    answers,             \* what the last call was answered
    returned             \* what the last call returned

vars == <<config, collecting, answers, returned>>

Pending == [kind |-> "none", images |-> {}]
Failure == [kind |-> "error", images |-> {}]

Init ==
    /\ collecting = FALSE
    /\ answers = {}
    /\ returned = Pending

\* A call starts to ask, or fails because it cannot tell what to ask.
Call ==
    /\ ~collecting
    /\ answers' = {}
    /\ \/ collecting' = TRUE /\ returned' = Pending
       \/ collecting' = FALSE /\ returned' = Failure

\* An answer may come after the call has returned without it.
Answer ==
    /\ answers \subseteq answers'
    /\ UNCHANGED <<config, collecting, returned>>

Return ==
    /\ collecting /\ collecting' = FALSE
    /\ \/ /\ Conclusive(config, answers)
          /\ returned' = [kind |-> "images", images |-> Images(config, answers)]
       \/ Excused(config, answers) /\ returned' = Failure
    /\ UNCHANGED <<config, answers>>

Next == Call \/ Answer \/ Return

Spec == Init /\ [][Next]_vars
=============================================================================
