---------------------------- MODULE MCDialogues ----------------------------
(* Up to four keys are typed, and up to three signals come from the keyboard. *)
EXTENDS Dialogues

AllStarts == QuestionStarts(3, 3) \cup EditorStarts(4) \cup SignalStarts(3)
=============================================================================
