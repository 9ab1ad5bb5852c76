-------------------------- MODULE AtMostOnceEffect --------------------------
(***************************************************************************)
(* What a durable effect queue promises about an effect on the outside     *)
(* world that can be neither undone nor inspected: it happens at most once *)
(* however often it is attempted; a report that it happened or that it did *)
(* not is true; once the queue has lost track of an attempt nobody tries   *)
(* again, and only a person may say what became of it - a saying that the   *)
(* lost attempt may still contradict.                                      *)
(***************************************************************************)
EXTENDS Naturals

CONSTANT Effects

VARIABLES
  phase,     (* what the queue knows of each effect                          *)
  happened   (* how often the effect happened outside                        *)

evars == <<phase, happened>>

Phases == {"none", "open", "trying", "uncertain", "done", "not_done",
           "judged_done", "judged_not_done"}

EffectInit ==
  /\ phase = [e \in Effects |-> "none"]
  /\ happened = [e \in Effects |-> 0]

MoveTo(e, p) == phase' = [phase EXCEPT ![e] = p] /\ UNCHANGED happened

(* The effect is asked for, and may be refused at once.                    *)
Request(e) ==
  /\ phase[e] = "none"
  /\ \E p \in {"open", "not_done"} : MoveTo(e, p)

Attempt(e) == phase[e] = "open" /\ MoveTo(e, "trying")

(* The outside world acts, possibly long after the queue lost track.       *)
Happen(e) ==
  /\ phase[e] \in {"trying", "uncertain", "judged_done", "judged_not_done"}
  /\ happened[e] = 0
  /\ happened' = [happened EXCEPT ![e] = 1]
  /\ UNCHANGED phase

ReportDone(e) == phase[e] = "trying" /\ happened[e] = 1 /\ MoveTo(e, "done")

(* An attempt that certainly failed may be repeated.                       *)
Release(e) == phase[e] = "trying" /\ happened[e] = 0 /\ MoveTo(e, "open")

GiveUp(e) ==
  /\ phase[e] \in {"open", "trying"}
  /\ happened[e] = 0
  /\ MoveTo(e, "not_done")

(* Several attempts may be lost at once.                                   *)
LoseTrack(S) ==
  /\ \A e \in S : phase[e] = "trying"
  /\ phase' = [e \in Effects |-> IF e \in S THEN "uncertain" ELSE phase[e]]
  /\ UNCHANGED happened

Judge(e) ==
  /\ phase[e] = "uncertain"
  /\ \E p \in {"judged_done", "judged_not_done"} : MoveTo(e, p)

EffectNext ==
  \/ \E e \in Effects :
       \/ Request(e)
       \/ Attempt(e)
       \/ Happen(e)
       \/ ReportDone(e)
       \/ Release(e)
       \/ GiveUp(e)
       \/ Judge(e)
  \/ \E S \in SUBSET Effects : LoseTrack(S)

EffectSpec == EffectInit /\ [][EffectNext]_evars

=============================================================================
