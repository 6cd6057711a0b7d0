----------------------------- MODULE DisplayLife -----------------------------
(***************************************************************************)
(* What the phone promises of one client's displays: each enters the registry *)
(* once, is announced at most once and while it is there, and ends for good.  *)
(* Of it are sent frames of one codec after the other, never of an older one   *)
(* again, and none once it has ended.  A codec's first frame comes behind its  *)
(* complete configuration, until the client's reliable stream is cut off:      *)
(* frames go on then, but no configuration and no announcement is sent.        *)
(***************************************************************************)
EXTENDS Naturals

CONSTANTS Displays,   \* the displays a client may ask for
          Whole       \* parts of a complete configuration

VARIABLES phase,      \* of each display
          shown,      \* the last configuration and the codec of the last frame sent
    cut         \* the reliable stream is cut off, for good

vars == <<phase, shown, cut>>

Phases == {"none", "made", "announced", "ending", "ended"}

Init ==
    /\ phase = [d \in Displays |-> "none"]
    /\ shown = [d \in Displays |-> [config |-> [gen |-> 0, part |-> 0], frame |-> 0]]
    /\ cut = FALSE

Moves(d, from, to) ==
    phase[d] \in from /\ phase' = [phase EXCEPT ![d] = to] /\ UNCHANGED <<shown, cut>>

Make(d)     == Moves(d, {"none"}, "made")
Announce(d) == ~cut /\ Moves(d, {"made"}, "announced")
(* Destroyed, with the encoder's thread still to end, ... *)
Destroy(d)  == Moves(d, {"made", "announced"}, "ending")
(* ... or with it. *)
End(d)      == Moves(d, {"made", "announced", "ending"}, "ended")

(* The first frame of a codec, newer than those before; another of it is a stutter. *)
Frame(d) ==
    /\ phase[d] \in {"made", "announced", "ending"}
    /\ \E gen \in {shown'[d].frame} :
          /\ gen \in Nat /\ gen > shown[d].frame
          /\ shown' = [shown EXCEPT ![d] =
                [config |-> IF cut THEN @.config ELSE [gen |-> gen, part |-> Whole], frame |-> gen]]
    /\ UNCHANGED <<phase, cut>>

CutOff == ~cut /\ cut' = TRUE /\ UNCHANGED <<phase, shown>>

Next == CutOff \/ \E d \in Displays : Make(d) \/ Announce(d) \/ Destroy(d) \/ End(d) \/ Frame(d)

Spec == Init /\ [][Next]_vars
=============================================================================
