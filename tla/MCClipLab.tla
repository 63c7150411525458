----------------------------- MODULE MCClipLab -----------------------------
(***************************************************************************)
(* The clip lab in two parts that share no state, the first state picking  *)
(* the one that moves: the review of a clip while its candidates are       *)
(* replaced (ClipLab), and its audio, sample by sample (AudioEdits).       *)
(*                                                                         *)
(* Two pages, one kind of operation, two generations with the same audio   *)
(* for the clip; and for the samples two generations of different lengths. *)
(***************************************************************************)
EXTENDS ClipLab, TLC

CONSTANTS c1, c2,
          MaxInsert, MaxExtra, MaxEdits  \* AudioEdits

ASSUME EditsAssumption == MaxEdits \in Nat

VARIABLES part,  \* the part that moves
          manifest, audio, native, overtaken, slicer, edit, wav, peaks, job, edits  \* AudioEdits

Symmetry == Permutations(Client)
Sources  == [g \in Gen |-> IF g < 3 THEN 1 ELSE 2]

(* Operations at every kind of boundary: all of the clip, inside it, past  *)
(* its end unless it was extended, silence inside and at the end, and too  *)
(* much silence.                                                           *)
Samples == <<<<11, 12, 13>>, <<21, 22>>>>
Deleted == {<<0, 3>>, <<1, 2>>, <<2, 4>>}
Silent  == {<<1, 3>>, <<3, 4>>, <<2, 5>>}
Sent    == {[kind |-> "delete_range",   at |-> x[1], to |-> x[2]] : x \in Deleted} \cup
           {[kind |-> "insert_silence", at |-> x[1], to |-> x[2]] : x \in Silent}

Edit == INSTANCE AudioEdits WITH
          Renderer <- Client, Original <- Samples, Operation <- Sent, doc <- edit

editing == <<manifest, audio, native, overtaken, slicer, edit, wav, peaks, job, edits>>

LabInit == /\ Init /\ Edit!Init
           /\ part \in {"review", "editing"}
           /\ part = "review" => edit = Edit!NoEdit

LabNext == /\ UNCHANGED part
           /\ \/ part = "review" /\ Next
              \/ part # "review" /\ UNCHANGED vars
           /\ \/ part = "editing" /\ Edit!Next
              \/ part # "editing" /\ UNCHANGED editing

LabSpec == LabInit /\ [][LabNext]_<<part, vars, editing>>

-----------------------------------------------------------------------------
(* Each part's state has the shapes its code writes. *)
LabTypeOK == IF part = "review" THEN TypeOK ELSE Edit!TypeOK

(* What is kept under a key is the source edited as the key says, whatever *)
(* renders, fails or is replaced; what is called ready is there; and what  *)
(* is played is as long as the page says (clip_lab_audio.py).              *)
ServedIsEdited == part = "editing" => Edit!ServedIsEdited

=============================================================================
