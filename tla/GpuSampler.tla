------------------------------ MODULE GpuSampler ------------------------------
(***************************************************************************)
(* GPU telemetry around one benchmark request: bench/telemetry.py:GpuSampler*)
(* as bench/collector.py:capture uses it.  The collector's thread takes a  *)
(* sample, sends the request, stops and joins the polling thread for at    *)
(* most JoinTimeout, takes a last sample and summarises.  The polling      *)
(* thread samples every Interval until it is stopped or a sample fails;    *)
(* both append to the same lists.                                          *)
(*                                                                         *)
(* Time is counted in whole seconds, because what the summary is worth     *)
(* rests on a join that waits longer than any sample takes.  Code that     *)
(* does not block takes no time.  A sample is represented by when it was   *)
(* begun; its figures do not matter here.                                  *)
(***************************************************************************)
EXTENDS Naturals, Sequences, FiniteSets

CONSTANTS Interval,      \* seconds between polls
          JoinTimeout,   \* seconds __exit__ waits for the polling thread
          MaxSample,     \* seconds within which a sample returns or fails
          StuckSample,   \* the same when nvidia-smi hangs and resists being killed
          MaxRequest     \* seconds within which the request returns or fails

ASSUME TimesAssumption == /\ Interval \in Nat \ {0}
                          /\ JoinTimeout \in Nat
                          /\ MaxSample \in Nat
                          /\ StuckSample \in Nat
                          /\ MaxRequest \in Nat

VARIABLES
  limit,     \* which of the two holds here
  enabled,   \* telemetry was asked for
  main,      \* where the collector's thread is
  poller,    \* where the polling thread is
  stop,      \* the event that ends polling
  samples,   \* samples taken, by when each was begun
  errors,    \* number of failed samples
  failed,    \* the request raised
  begun,     \* when the poller's current sample was begun
  spent,     \* seconds the main thread has been blocked where it is
  waited,    \* seconds the polling thread has been blocked where it is
  rows,      \* the samples the summary's figures were computed from
  count      \* the number of samples it reports

mainVars == <<limit, enabled, main, stop, failed, spent, rows, count>>
pollerVars == <<poller, begun, waited>>
vars == <<samples, errors, mainVars, pollerVars>>

Init == /\ limit \in {MaxSample, StuckSample}
        /\ enabled \in BOOLEAN
        /\ main = "enter" /\ poller = "none" /\ stop = FALSE
        /\ samples = <<>> /\ errors = 0
        /\ failed = FALSE /\ begun = "none"
        /\ spent = 0 /\ waited = 0
        /\ rows = <<>> /\ count = 0

-------------------------------------------------------------------------------
(* The collector's thread.                                                 *)

GoTo(step) == main' = step /\ spent' = 0

EnterDisabled == /\ main = "enter" /\ ~enabled
                 /\ GoTo("request")
                 /\ UNCHANGED <<limit, enabled, stop, samples, errors, failed,
                                rows, count, pollerVars>>

\* A first sample, then the polling thread is started.
Enter == /\ main = "enter" /\ enabled
         /\ samples' = Append(samples, "before")
         /\ poller' = "waiting" /\ waited' = 0
         /\ GoTo("request")
         /\ UNCHANGED <<limit, enabled, stop, errors, failed, begun, rows, count>>

\* No model request is made without that sample.
EnterFails == /\ main = "enter" /\ enabled
              /\ GoTo("aborted")
              /\ UNCHANGED <<limit, enabled, stop, samples, errors, failed,
                             rows, count, pollerVars>>

RequestEnds == /\ main = "request"
               /\ failed' \in BOOLEAN
               /\ GoTo(IF enabled THEN "exit"
                       ELSE IF failed' THEN "aborted" ELSE "summary")
               /\ UNCHANGED <<limit, enabled, stop, samples, errors, rows,
                              count, pollerVars>>

SetStop == /\ main = "exit"
           /\ stop' = TRUE
           /\ GoTo("join")
           /\ UNCHANGED <<limit, enabled, samples, errors, failed, rows, count,
                          pollerVars>>

JoinReturns == main = "join" /\ poller = "ended"

\* Deviation: the join is given less time than a sample may take.
JoinTimesOutEarly == main = "join" /\ spent + 2 >= JoinTimeout

JoinTimesOut == main = "join" /\ spent = JoinTimeout

Join == /\ JoinReturns \/ JoinTimesOut
        /\ GoTo("check")
        /\ UNCHANGED <<limit, enabled, stop, samples, errors, failed, rows,
                       count, pollerVars>>

\* Where the with statement leads: on with the summary, or out with the
\* request's exception.
AfterExit == IF failed THEN "aborted" ELSE "summary"

\* Deviation: no sample is taken after the request.
CheckOnly == /\ main = "check"
             /\ GoTo(AfterExit)
             /\ UNCHANGED <<limit, enabled, stop, samples, errors, failed,
                            rows, count, pollerVars>>

Check == /\ main = "check"
         /\ GoTo(IF errors = 0 THEN "final" ELSE AfterExit)
         /\ UNCHANGED <<limit, enabled, stop, samples, errors, failed, rows,
                        count, pollerVars>>

FinalSample == /\ main = "final"
               /\ samples' = Append(samples, "final")
               /\ GoTo(AfterExit)
               /\ UNCHANGED <<limit, enabled, stop, errors, failed, rows,
                              count, pollerVars>>

FinalSampleFails == /\ main = "final"
                    /\ GoTo("aborted")
                    /\ UNCHANGED <<limit, enabled, stop, samples, errors,
                                   failed, rows, count, pollerVars>>

SummaryDisabled == /\ main = "summary" /\ ~enabled
                   /\ GoTo("recorded")
                   /\ UNCHANGED <<limit, enabled, stop, samples, errors,
                                  failed, rows, count, pollerVars>>

SummaryIncomplete == /\ main = "summary" /\ enabled
                     /\ errors # 0 \/ samples = <<>>
                     /\ GoTo("aborted")
                     /\ UNCHANGED <<limit, enabled, stop, samples, errors,
                                    failed, rows, count, pollerVars>>

\* The figures are computed over the list first, its length is read after.
Figures == /\ main = "summary" /\ enabled
           /\ errors = 0 /\ samples # <<>>
           /\ rows' = samples
           /\ GoTo("count")
           /\ UNCHANGED <<limit, enabled, stop, samples, errors, failed, count,
                          pollerVars>>

Count == /\ main = "count"
         /\ count' = Len(samples)
         /\ GoTo("recorded")
         /\ UNCHANGED <<limit, enabled, stop, samples, errors, failed, rows,
                        pollerVars>>

Main == \/ EnterDisabled \/ Enter \/ EnterFails \/ RequestEnds \/ SetStop \/ Join
        \/ Check \/ FinalSample \/ FinalSampleFails \/ SummaryDisabled
        \/ SummaryIncomplete \/ Figures \/ Count

-------------------------------------------------------------------------------
(* The polling thread.                                                     *)

\* Deviation: the result of the wait is ignored.
PollDueAnyway == /\ poller = "waiting"
                 /\ poller' = "due"
                 /\ UNCHANGED <<samples, errors, begun, waited, mainVars>>

\* The wait runs out with the event not set; it may be set before the sample
\* that follows is begun.
PollDue == /\ poller = "waiting" /\ ~stop /\ waited = Interval
           /\ poller' = "due"
           /\ UNCHANGED <<samples, errors, begun, waited, mainVars>>

PollBegin == /\ poller = "due"
             /\ poller' = "sampling" /\ waited' = 0
             /\ begun' = IF stop THEN "late" ELSE "during"
             /\ UNCHANGED <<samples, errors, mainVars>>

PollSample == /\ poller = "sampling"
              /\ samples' = Append(samples, begun)
              /\ poller' = "waiting" /\ waited' = 0
              /\ UNCHANGED <<errors, begun, mainVars>>

PollFails == /\ poller = "sampling"
             /\ errors' = errors + 1
             /\ poller' = "ended"
             /\ UNCHANGED <<samples, begun, waited, mainVars>>

\* Deviation: the event is looked at only when the interval is over.
PollStoppedLate == /\ poller = "waiting" /\ stop /\ waited > Interval
                   /\ poller' = "ended"
                   /\ UNCHANGED <<samples, errors, begun, waited, mainVars>>

PollStopped == /\ poller = "waiting" /\ stop
               /\ poller' = "ended"
               /\ UNCHANGED <<samples, errors, begun, waited, mainVars>>

Poller == PollDue \/ PollBegin \/ PollSample \/ PollFails \/ PollStopped

-------------------------------------------------------------------------------
(* Time passes only while every thread that is not blocked has nothing to  *)
(* do, and never beyond what a blocked thread waits for.                   *)

MainBlocked == \/ main = "request" /\ spent < MaxRequest
               \/ main = "join" /\ poller # "ended" /\ spent < JoinTimeout
               \/ main = "final" /\ spent < limit
               \/ main \in {"recorded", "aborted"} /\ poller \notin {"none", "ended"}

\* Deviation: a sample may run one second longer than its timeout.
PollerBlockedLonger == \/ poller = "waiting" /\ ~stop /\ waited < Interval
                       \/ poller = "sampling" /\ waited <= limit
                       \/ poller \in {"none", "ended"}

PollerBlocked == \/ poller = "waiting" /\ ~stop /\ waited < Interval
                 \/ poller = "sampling" /\ waited < limit
                 \/ poller \in {"none", "ended"}

Tick == /\ MainBlocked /\ PollerBlocked
        /\ spent' = IF main \in {"recorded", "aborted"} THEN spent ELSE spent + 1
        /\ waited' = IF poller \in {"none", "ended"} THEN waited ELSE waited + 1
        /\ UNCHANGED <<limit, enabled, main, poller, stop, samples, errors,
                       failed, begun, rows, count>>

Next == Main \/ Poller \/ Tick

\* Both threads are scheduled and time goes on.
Spec == Init /\ [][Next]_vars /\ WF_vars(Main) /\ WF_vars(Poller) /\ WF_vars(Tick)

-------------------------------------------------------------------------------
(* Properties.                                                             *)

Stages == {"before", "during", "late", "final"}

TypeOK == /\ limit \in {MaxSample, StuckSample}
          /\ enabled \in BOOLEAN /\ stop \in BOOLEAN /\ failed \in BOOLEAN
          /\ main \in {"enter", "request", "exit", "join", "check", "final",
                       "summary", "count", "recorded", "aborted"}
          /\ poller \in {"none", "waiting", "due", "sampling", "ended"}
          /\ samples \in Seq(Stages) /\ rows \in Seq(Stages)
          /\ errors \in 0..1
          /\ begun \in Stages \cup {"none"}
          /\ spent \in Nat
          /\ waited \in Nat /\ (poller = "sampling" => waited <= limit)
          /\ count \in Nat

Reported == main = "recorded" /\ enabled

Taken(stage) == {i \in DOMAIN rows : rows[i] = stage}

\* A record that says telemetry was collected has figures from a sample taken
\* before the request was sent and from one begun after it had ended, whatever
\* the polling thread did in between ("Fail before any model request if
\* requested telemetry is unavailable"; the last sample of __exit__).
Brackets == Reported => Taken("before") = {1} /\ Taken("final") # {}

\* Nothing the polling thread still does can be missing from a record: its
\* figures and its count are over the same samples, no sample failed, and the
\* thread has ended.  This is what a join longer than a sample buys: it is not so
\* when a sample hangs for longer than that.
SummaryWhole == Reported /\ limit < JoinTimeout =>
                  /\ rows = samples /\ count = Len(rows)
                  /\ errors = 0
                  /\ poller = "ended"

\* At most one sample is begun once the request is over, however the wait and
\* the event race.
OneLateSample == Cardinality({i \in DOMAIN samples : samples[i] = "late"}) <= 1

\* The collector's thread always comes out, with a record or without, and the
\* polling thread it started does not go on sampling the card.
SamplerEnds == <>(main \in {"recorded", "aborted"} /\ poller \in {"none", "ended"})
===============================================================================
