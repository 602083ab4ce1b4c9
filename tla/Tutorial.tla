-------------------------------- MODULE Tutorial --------------------------------
(***************************************************************************)
(* The tour of pages/Onboarding.tsx: six steps, gone through by buttons,    *)
(* dots and keys, one of which (StepEnterOpinion) lets the visitor try the  *)
(* form for an opinion, with a preview and nothing to send.                 *)
(***************************************************************************)
EXTENDS Integers

CONSTANTS
    Typed,          \* numbers that the visitor types
    Blank           \* an empty field, or no number

VARIABLES
    open,           \* the page is mounted
    currentStep,
    direction,      \* of the animation: 1, -1 or 0
    focus,          \* the keyboard goes to a field
    fields          \* lower, peak and upper, as typed

vars == <<open, currentStep, direction, focus, fields>>

totalSteps == 6
TrialStep == 3      \* steps[3] is enter-opinion

Values == Typed \cup {Blank}
Initial == [lower |-> 30, peak |-> 50, upper |-> 70]

(* What is assumed of the constants. *)
ConstantsOK == Typed \subseteq 0..100 /\ Blank \notin 0..100

isFirstStep == currentStep = 0
isLastStep == currentStep = totalSteps - 1

-------------------------------------------------------------------------------
(* StepEnterOpinion                                                         *)

(* parseFloat(text) || fallback: no number, and 0, give the fallback. *)
OrElse(text, fallback) == IF text = Blank \/ text = 0 THEN fallback ELSE text

Numbers(f) ==
    [lower |-> OrElse(f.lower, 0), peak |-> OrElse(f.peak, 50), upper |-> OrElse(f.upper, 100)]

(* Mutant: the upper bound is not compared. *)
LowerBelowPeak(n) == n.lower <= n.peak

IsValid(n) == n.lower <= n.peak /\ n.peak <= n.upper

(* The triangle with its labels, or the hint that there is none. *)
TrianglePreview(f) == IF IsValid(Numbers(f)) THEN Numbers(f) ELSE Blank

-------------------------------------------------------------------------------
(* Onboarding                                                               *)

(* The buttons of the footer; the middle of it has a dot for each step. *)
FooterButtons ==
    {"dots"} \cup (IF isFirstStep THEN {} ELSE {"previous"}) \cup (IF isLastStep THEN {"finish"} ELSE {"next"})

(* Whatever step is shown is mounted anew: the key of the element is its id. *)
Show(step, dir) ==
    /\ currentStep' = step /\ direction' = dir
    /\ IF step = currentStep THEN UNCHANGED <<focus, fields>> ELSE focus' = FALSE /\ fields' = Initial
    /\ UNCHANGED open

GoToNext == currentStep < totalSteps - 1 /\ Show(currentStep + 1, 1)
GoToPrevious == currentStep > 0 /\ Show(currentStep - 1, -1)

Exit ==
    /\ open' = FALSE
    /\ UNCHANGED <<currentStep, direction, focus, fields>>

Press(button) ==
    /\ open /\ button \in FooterButtons
    /\ CASE button = "next"     -> GoToNext
         [] button = "previous" -> GoToPrevious
         [] button = "finish"   -> Exit
         [] button = "dots"     -> \E step \in 0..totalSteps - 1 :
                                       Show(step, IF step > currentStep THEN 1 ELSE -1)

Skip == open /\ Exit

(* handleKeyDown: nothing while a field has the focus. *)
Key(key) ==
    /\ open /\ ~focus
    /\ CASE key = "ArrowRight" -> ~isLastStep /\ GoToNext
         [] key = "ArrowLeft"  -> ~isFirstStep /\ GoToPrevious
         [] key = "Escape"     -> Exit

Focus ==
    /\ open /\ currentStep = TrialStep
    /\ focus' = ~focus
    /\ UNCHANGED <<open, currentStep, direction, fields>>

Type(field, text) ==
    /\ open /\ currentStep = TrialStep /\ focus
    /\ fields' = [fields EXCEPT ![field] = text]
    /\ UNCHANGED <<open, currentStep, direction, focus>>

Start ==
    /\ ~open
    /\ open' = TRUE
    /\ currentStep' = 0 /\ direction' = 0 /\ focus' = FALSE /\ fields' = Initial

-------------------------------------------------------------------------------

Init == open = TRUE /\ currentStep = 0 /\ direction = 0 /\ focus = FALSE /\ fields = Initial

Next ==
    \/ \E button \in {"next", "previous", "finish", "dots"} : Press(button)
    \/ \E key \in {"ArrowRight", "ArrowLeft", "Escape"} : Key(key)
    \/ Skip \/ Start \/ Focus
    \/ \E field \in DOMAIN fields, text \in Values : Type(field, text)

Spec == Init /\ [][Next]_vars

-------------------------------------------------------------------------------
(* Properties.                                                              *)

(* Types; the step is one of the six. *)
TypeOK ==
    /\ currentStep \in 0..totalSteps - 1
    /\ direction \in -1..1
    /\ {open, focus} \subseteq BOOLEAN
    /\ \A field \in DOMAIN fields : fields[field] \in Values \cup {30, 50, 70}

(* The trial judges as the form of the project and the API do: numbers that *)
(* are there are drawn as they are when they are in order, and not drawn    *)
(* when they are not - except a peak or an upper bound of 0, which the code *)
(* takes for an empty field.                                                *)
TrialIsLikeTheForm ==
    (\A field \in DOMAIN fields : fields[field] # Blank) /\ fields.peak # 0 /\ fields.upper # 0 =>
        TrianglePreview(fields) = IF fields.lower <= fields.peak /\ fields.peak <= fields.upper THEN fields ELSE Blank

===============================================================================
