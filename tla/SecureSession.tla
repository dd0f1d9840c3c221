--------------------------- MODULE SecureSession ---------------------------
(***************************************************************************)
(* What secure mode promises, without the way it is reached: a two-state   *)
(* flag guarding a buffer of secret fields.  Secure mode is entered only   *)
(* together with an authentication context; characters reach the buffer    *)
(* only after the UI asked for collection; and leaving secure mode drops    *)
(* the context and wipes the buffer in the same step.  Secure.tla is shown  *)
(* to implement this module through the mapping in SessionRefined.         *)
(***************************************************************************)

VARIABLES
    on,          \* secure mode
    hasCtx,      \* an authentication context is present
    collecting,  \* the UI asked for the password to be collected
    typed        \* some secret field holds text

vars == <<on, hasCtx, collecting, typed>>

Init == ~on /\ ~hasCtx /\ ~collecting /\ ~typed

\* a context is given, at any time
SetContext ==
    /\ hasCtx'
    /\ UNCHANGED <<on, collecting, typed>>

\* the context is dropped while secure mode is off
ClearContext ==
    /\ ~on
    /\ ~hasCtx'
    /\ UNCHANGED <<on, collecting, typed>>

\* secure mode is entered with a context and an empty buffer
Enter ==
    /\ ~on /\ on'
    /\ hasCtx'
    /\ ~collecting' /\ ~typed'

\* the UI starts collection
BeginCollect ==
    /\ on /\ collecting'
    /\ UNCHANGED <<on, hasCtx, typed>>

\* a character lands in a secret field
Type ==
    /\ on /\ collecting /\ typed'
    /\ UNCHANGED <<on, hasCtx, collecting>>

\* the secret fields are emptied (backspace, submit, a refused cancel)
Erase ==
    /\ on /\ ~typed'
    /\ UNCHANGED <<on, hasCtx, collecting>>

\* secure mode is left: context dropped, buffer wiped
Leave ==
    /\ on /\ ~on'
    /\ ~hasCtx' /\ ~collecting' /\ ~typed'

Next ==
    \/ SetContext \/ ClearContext \/ Enter \/ BeginCollect
    \/ Type \/ Erase \/ Leave

Spec == Init /\ [][Next]_vars

=============================================================================
