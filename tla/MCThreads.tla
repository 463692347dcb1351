------------------------------ MODULE MCThreads -------------------------------
(* Model checking of Threads: the application and the system thread, the     *)
(* timer service and a user thread.  The queues hold one message, so that    *)
(* they are full as soon as a second one is sent.                            *)
EXTENDS Threads

CONSTANTS app, sys, svc, user, System, Application,
          s0, s1, s2, s3, s4, s5, a1, a2, a3, a4

MCOwner == System :> sys @@ Application :> app
MCQueueSize == [o \in Object |-> 1]
MCOn == [w \in Work |-> IF w \in {a1, a2, a3, a4} THEN Application ELSE System]

(* The function s1 called by the application posts a1 to it, whose own body  *)
(* calls the system thread again.  The timer's callback calls both threads,  *)
(* the application also while that waits for it in dispose().  The user      *)
(* thread is created first: its calls may come before the objects are        *)
(* started, while they are, or after.                                        *)
MCBody == [w \in Work |-> CASE w = s1 -> <<a1>>
                            [] w = a1 -> <<s3>>
                            [] w = a2 -> <<a3>>
                            [] w = s2 -> <<s5>>
                            [] OTHER -> <<>>]
MCMain == [t \in Thread |-> CASE t = app -> <<"create", s0, System, Application>>
                              [] t = user -> <<a2, s2>>
                              [] OTHER -> <<>>]
MCBackground == [o \in Object |-> IF o = Application THEN <<"start", s1, Process, "dispose", "dispose", "join">> ELSE <<>>]
MCCallback == <<s4, a4>>
=============================================================================
