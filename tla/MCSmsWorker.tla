---------------------------- MODULE MCSmsWorker ----------------------------
(* Instances of SmsWorker for TLC.                                         *)
EXTENDS SmsWorker

EveryAnswer == AnswerKinds
AcceptsOrDefers == {"accepts", "defers"}
=============================================================================
