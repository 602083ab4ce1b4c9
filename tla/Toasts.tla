--------------------------------- MODULE Toasts ---------------------------------
(***************************************************************************)
(* The notifications of hooks/use-toast.ts: a store outside of React, which *)
(* the components that call useToast copy into their state; the Toaster is  *)
(* the one that shows them (components/ui/toaster.tsx).  A toast that is    *)
(* closed stays in the store, for its animation, until a timer removes it.  *)
(***************************************************************************)
EXTENDS Naturals, Sequences, FiniteSets, SequencesExt

CONSTANTS
    Components,     \* the Toaster, and pages that call useToast
    MaxToasts       \* bound: calls of toast

TOAST_LIMIT == 1

VARIABLES
    count,          \* of genId
    toasts,         \* memoryState: the newest first
    toastTimeouts,  \* the toasts whose removal is scheduled
    listeners,      \* the components that have subscribed
    rendered,       \* and those that have rendered, but not subscribed yet
    state,          \* what a component has copied
    missed          \* history: something changed between its rendering and its subscription

vars == <<count, toasts, toastTimeouts, listeners, rendered, state, missed>>

(* What is assumed of the constants. *)
ConstantsOK == MaxToasts \in Nat

Ids == 1..MaxToasts
Toast == [id : Ids, open : BOOLEAN]

-------------------------------------------------------------------------------

(* Mutant: without the limit. *)
Unlimited(t) == <<t>> \o toasts

Newest(t) == SubSeq(<<t>> \o toasts, 1, IF Len(toasts) < TOAST_LIMIT THEN Len(toasts) + 1 ELSE TOAST_LIMIT)

(* reducer *)
Added(id) == Newest([id |-> id, open |-> TRUE])
Dismissed(ids) == [i \in DOMAIN toasts |-> IF toasts[i].id \in ids THEN [toasts[i] EXCEPT !.open = FALSE] ELSE toasts[i]]
Removed(id) == RemoveFirstMatch(toasts, LAMBDA t : t.id = id)

(* Mutant: those that subscribed last are not told. *)
TellFirst(new) ==
    [c \in Components |-> IF c \in listeners /\ Cardinality(listeners) = 1 THEN new ELSE state[c]]

Tell(new) == [c \in Components |-> IF c \in listeners THEN new ELSE state[c]]

Dispatch(new) ==
    /\ toasts' = new
    /\ state' = Tell(new)
    /\ missed' = [c \in Components |-> IF c \in listeners THEN FALSE ELSE missed[c] \/ (c \in rendered /\ new # toasts)]

(* toast(): a new one, which pushes the old one out. *)
Show ==
    /\ count < MaxToasts
    /\ count' = count + 1
    /\ Dispatch(Added(count + 1))
    /\ UNCHANGED <<toastTimeouts, listeners, rendered>>

(* Mutant: no removal is scheduled when one is already. *)
ScheduleOne(ids) == IF toastTimeouts = {} THEN ids ELSE toastTimeouts

(* addToRemoveQueue *)
Schedule(ids) == toastTimeouts \cup ids

(* onOpenChange: the toast was closed, swiped away or shown long enough; or *)
(* dismiss(id) of whoever made it, also when it was pushed out before.      *)
Dismiss(id) ==
    /\ id <= count
    /\ toastTimeouts' = Schedule({id})
    /\ Dispatch(Dismissed({id}))
    /\ UNCHANGED <<count, listeners, rendered>>

(* dismiss() without an id: all of them. *)
DismissAll ==
    LET ids == {toasts[i].id : i \in DOMAIN toasts}
    IN  /\ toastTimeouts' = Schedule(ids)
        /\ Dispatch(Dismissed(ids))
        /\ UNCHANGED <<count, listeners, rendered>>

TimeoutFires(id) ==
    /\ id \in toastTimeouts
    /\ toastTimeouts' = toastTimeouts \ {id}
    /\ Dispatch(Removed(id))
    /\ UNCHANGED <<count, listeners, rendered>>

-------------------------------------------------------------------------------
(* useToast                                                                 *)

(* The first rendering: useState(memoryState). *)
Render(c) ==
    /\ c \notin listeners \cup rendered
    /\ rendered' = rendered \cup {c}
    /\ state' = [state EXCEPT ![c] = toasts]
    /\ missed' = [missed EXCEPT ![c] = FALSE]
    /\ UNCHANGED <<count, toasts, toastTimeouts, listeners>>

(* Its effect, later. *)
Subscribe(c) ==
    /\ c \in rendered
    /\ rendered' = rendered \ {c}
    /\ listeners' = listeners \cup {c}
    /\ UNCHANGED <<count, toasts, toastTimeouts, state, missed>>

Unmount(c) ==
    /\ c \in listeners
    /\ listeners' = listeners \ {c}
    /\ state' = [state EXCEPT ![c] = <<>>]
    /\ missed' = [missed EXCEPT ![c] = FALSE]
    /\ UNCHANGED <<count, toasts, toastTimeouts, rendered>>

(* What the Toaster draws. *)
OnScreen(c) == {state[c][i].id : i \in {j \in DOMAIN state[c] : state[c][j].open}}

-------------------------------------------------------------------------------

Init ==
    /\ count = 0 /\ toasts = <<>> /\ toastTimeouts = {}
    /\ listeners = {} /\ rendered = {}
    /\ state = [c \in Components |-> <<>>] /\ missed = [c \in Components |-> FALSE]

Next ==
    \/ Show \/ DismissAll
    \/ \E id \in Ids : Dismiss(id) \/ TimeoutFires(id)
    \/ \E c \in Components : Render(c) \/ Subscribe(c) \/ Unmount(c)

Spec == Init /\ [][Next]_vars

-------------------------------------------------------------------------------
(* Properties.                                                              *)

(* Types of the store and of its copies; the store keeps the limit. *)
TypeOK ==
    /\ count \in 0..MaxToasts
    /\ Len(toasts) <= TOAST_LIMIT /\ \A i \in DOMAIN toasts : toasts[i] \in Toast
    /\ toastTimeouts \subseteq Ids
    /\ listeners \cap rendered = {} /\ listeners \cup rendered \subseteq Components
    /\ \A c \in Components : \A i \in DOMAIN state[c] : state[c][i] \in Toast

(* A component that has subscribed shows the store, unless something was    *)
(* dispatched between its rendering and its effect: no toast stays on the   *)
(* screen that is gone, and the newest one is seen.                         *)
SubscribersShowStore ==
    \A c \in listeners : ~missed[c] =>
        /\ state[c] = toasts
        /\ \A id \in OnScreen(c) : id = count

(* A closed toast is going to be removed: its timer runs as long as it is   *)
(* in the store, whatever was shown, pushed out or dismissed twice.         *)
ClosedToastsAreRemoved ==
    \A i \in DOMAIN toasts : ~toasts[i].open => toasts[i].id \in toastTimeouts

===============================================================================
