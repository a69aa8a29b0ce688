----------------------------- MODULE CallService -----------------------------
(***************************************************************************)
(* What the extension promises a mission script that submits work instead  *)
(* of calling it directly (README.md: "Queue System that allows scheduling *)
(* and checking if a sql call is finished or not", "Supports Priorty Calls *)
(* both High & Low"):                                                      *)
(*                                                                         *)
(*   - a submitted call is run at most once, each of the three kinds in    *)
(*     the order it was submitted, one call at a time;                     *)
(*   - a numbered call ("ticket") is answered by EMPTY when it was never   *)
(*     asked or was already collected, by WAIT while it has not been run,  *)
(*     and exactly once by the result of the call that was asked;          *)
(*   - while the service is open and idle and there is work, it starts     *)
(*     some of it, and what it starts it finishes, unless the process ends.*)
(*                                                                         *)
(* There is no lock, no shared map and no program counter here.            *)
(* AsyncWorker.tla is shown to implement this specification.               *)
(***************************************************************************)
EXTENDS Naturals, Sequences

CONSTANTS Calls,    \* the calls a script can submit
          NoCall,   \* no call at all
          Numbers   \* the ticket numbers a script can poll

VARIABLES high,     \* important calls not started yet
          low,      \* unimportant calls not started yet
          box,      \* box[n] is the n-th numbered call, and how far it got
          busy,     \* the call being run
          open,     \* the service is running
          answer    \* the reply to the last poll

vars == <<high, low, box, busy, open, answer>>

Idle == [kind |-> "idle", call |-> NoCall]
Running(k, c) == [kind |-> k, call |-> c]

NoAnswer == [kind |-> "none", n |-> 0, call |-> NoCall]

Init == /\ high = <<>> /\ low = <<>> /\ box = <<>>
        /\ busy = Idle
        /\ open = FALSE
        /\ answer = NoAnswer

----------------------------------------------------------------------------
(* Submissions.  A call that is no poll wipes the last answer. *)

SubmitHigh(c) == /\ high' = Append(high, c)
                 /\ answer' = NoAnswer
                 /\ UNCHANGED <<low, box, busy, open>>

SubmitLow(c) == /\ low' = Append(low, c)
                /\ answer' = NoAnswer
                /\ UNCHANGED <<high, box, busy, open>>

Ask(c) == /\ box' = Append(box, [call |-> c, phase |-> "queued"])
          /\ answer' = NoAnswer
          /\ UNCHANGED <<high, low, busy, open>>

(* Polls of ticket n. *)

Known(n) == n \in DOMAIN box /\ box[n].phase # "taken"

Forget == /\ answer' = NoAnswer
          /\ UNCHANGED <<high, low, box, busy, open>>

ReplyEmpty(n) == /\ ~Known(n)
                 /\ answer' = [kind |-> "EMPTY", n |-> n, call |-> NoCall]
                 /\ UNCHANGED <<high, low, box, busy, open>>

ReplyWait(n) == /\ Known(n) /\ box[n].phase # "done"
                /\ answer' = [kind |-> "WAIT", n |-> n, call |-> NoCall]
                /\ UNCHANGED <<high, low, box, busy, open>>

ReplyResult(n) == /\ Known(n) /\ box[n].phase = "done"
                  /\ answer' = [kind |-> "result", n |-> n, call |-> box[n].call]
                  /\ box' = [box EXCEPT ![n].phase = "taken"]
                  /\ UNCHANGED <<high, low, busy, open>>

(* The worker. *)

StartHigh == /\ busy = Idle /\ high # <<>>
             /\ busy' = Running("high", Head(high))
             /\ high' = Tail(high)
             /\ UNCHANGED <<low, box, open, answer>>

StartLow == /\ busy = Idle /\ low # <<>>
            /\ busy' = Running("low", Head(low))
            /\ low' = Tail(low)
            /\ UNCHANGED <<high, box, open, answer>>

StartTicket(n) == /\ busy = Idle
                  /\ n \in DOMAIN box /\ box[n].phase = "queued"
                  /\ \A m \in 1..(n - 1) : box[m].phase # "queued"
                  /\ busy' = Running("ticket", box[n].call)
                  /\ box' = [box EXCEPT ![n].phase = "running"]
                  /\ UNCHANGED <<high, low, open, answer>>

FinishCommand == /\ busy.kind \in {"high", "low"}
                 /\ busy' = Idle
                 /\ UNCHANGED <<high, low, box, open, answer>>

FinishTicket(n) == /\ busy.kind = "ticket"
                   /\ n \in DOMAIN box /\ box[n].phase = "running"
                   /\ busy' = Idle
                   /\ box' = [box EXCEPT ![n].phase = "done"]
                   /\ UNCHANGED <<high, low, open, answer>>

Open  == /\ open' = TRUE  /\ UNCHANGED <<high, low, box, busy, answer>>
Close == /\ open' = FALSE /\ UNCHANGED <<high, low, box, busy, answer>>

(* The end of the process is the end of what it was running. *)
Exit == /\ open' = FALSE /\ busy' = Idle
        /\ UNCHANGED <<high, low, box, answer>>

Start  == StartHigh \/ StartLow \/ \E n \in DOMAIN box : StartTicket(n)
Finish == FinishCommand \/ \E n \in DOMAIN box : FinishTicket(n)

Next == \/ \E c \in Calls : SubmitHigh(c) \/ SubmitLow(c) \/ Ask(c)
        \/ Forget
        \/ \E n \in Numbers : ReplyEmpty(n) \/ ReplyWait(n) \/ ReplyResult(n)
        \/ Start \/ Finish \/ Open \/ Close \/ Exit

Spec == Init /\ [][Next]_vars

FairSpec == Spec /\ WF_vars(open /\ Start) /\ WF_vars(Finish)
=============================================================================
