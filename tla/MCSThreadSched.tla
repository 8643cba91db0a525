---------------------------- MODULE MCSThreadSched ----------------------------
(* An instance of SThreadSched for TLC: main and up to three created      *)
(* threads, priorities passed in and out of the range sthread_user_create *)
(* keeps, sleeps of zero and one tick, and a timer that stops after a     *)
(* few ticks.                                                             *)
EXTENDS SThreadSched

MCThreads == 1 .. MaxThreads
=============================================================================
