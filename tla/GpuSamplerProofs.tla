--------------------------- MODULE GpuSamplerProofs ---------------------------
(***************************************************************************)
(* The sampler for any interval, timeouts and lengths of samples and       *)
(* requests, however the two threads interleave: a record's figures        *)
(* bracket the request, one sample at most is begun too late, and nothing  *)
(* is lost when a sample is shorter than the join.                         *)
(***************************************************************************)
EXTENDS GpuSampler, SequenceTheorems, FiniteSetTheorems, TLAPS

\* Both are over once a sample has failed: the polling thread ends with it.
FailureEnds == poller # "ended" => errors = 0

\* What the main thread's place says of the event and of the polling thread.
Places ==
  /\ main \in {"enter", "request", "exit"} => ~stop
  /\ main \in {"exit", "join", "check", "final", "count"} => enabled
  /\ enabled /\ main \notin {"enter", "request", "exit", "aborted"} => stop
  /\ main = "enter" => poller = "none" /\ samples = <<>>
  /\ enabled /\ main \notin {"enter", "aborted"} => poller # "none"

FirstIsBefore(seq) == /\ seq # <<>> /\ seq[1] = "before"
                      /\ \A i \in DOMAIN seq : seq[i] = "before" => i = 1

HasFinal(seq) == \E i \in DOMAIN seq : seq[i] = "final"

\* The samples begin with the one before the request; the last one is there when
\* the summary is reached without a failure.
Samples ==
  /\ poller # "none" => FirstIsBefore(samples)
  /\ begun \in {"none", "during", "late"} /\ (poller = "sampling" => begun # "none")
  /\ enabled /\ main = "summary" /\ errors = 0 => HasFinal(samples)
  /\ enabled /\ main \in {"count", "recorded"} => FirstIsBefore(rows) /\ HasFinal(rows)

NoneLate == \A i \in DOMAIN samples : samples[i] # "late"

\* A sample begun late was due before the event was set, and none was late then.
Late == /\ \A i, j \in DOMAIN samples : samples[i] = "late" /\ samples[j] = "late" => i = j
        /\ ~stop \/ poller \in {"none", "due", "sampling"} => NoneLate
        /\ ~stop => begun # "late"

\* How long the join has waited: no longer than the sample that it waits for, and
\* therefore never to its end when samples are shorter than that.
Times ==
  /\ main = "join" => /\ poller = "due" => spent = 0
                      /\ poller = "sampling" => spent <= waited
                      /\ poller = "waiting" => spent <= limit
  /\ enabled /\ limit < JoinTimeout
       /\ main \in {"check", "final", "summary", "count", "recorded"} => poller = "ended"

\* What is reported is over the whole list.
Whole == enabled /\ limit < JoinTimeout =>
           /\ main \in {"count", "recorded"} => rows = samples /\ errors = 0
           /\ main = "recorded" => count = Len(rows)

SamplerInv == /\ TypeOK /\ FailureEnds /\ Places /\ Samples /\ Late /\ Times /\ Whole

-------------------------------------------------------------------------------
LEMMA LimitNat == TypeOK => limit \in Nat
  BY TimesAssumption DEF TypeOK

LEMMA Appended ==
  ASSUME TypeOK, NEW stage \in Stages, samples' = Append(samples, stage)
  PROVE  /\ samples' \in Seq(Stages) /\ samples' # <<>>
         /\ Len(samples) \in Nat /\ DOMAIN samples = 1..Len(samples)
         /\ DOMAIN samples' = 1..(Len(samples) + 1)
         /\ \A i \in 1..Len(samples) : samples'[i] = samples[i]
         /\ samples'[Len(samples) + 1] = stage
<1>1. Len(samples) \in Nat /\ DOMAIN samples = 1..Len(samples)
  BY LenProperties DEF TypeOK
<1>2. /\ samples' \in Seq(Stages) /\ samples' # <<>> /\ Len(samples') = Len(samples) + 1
      /\ \A i \in 1..Len(samples) : samples'[i] = samples[i]
      /\ samples'[Len(samples) + 1] = stage
  BY AppendProperties DEF TypeOK
<1>3. DOMAIN samples' = 1..(Len(samples) + 1)
  BY <1>2, LenProperties
<1> QED
  BY <1>1, <1>2, <1>3

-------------------------------------------------------------------------------
(* Types.                                                                  *)

LEMMA MainTypes == TypeOK /\ FailureEnds /\ Places /\ Main => TypeOK' /\ FailureEnds'
<1> SUFFICES ASSUME TypeOK, FailureEnds, Places, Main PROVE TypeOK' /\ FailureEnds'
  OBVIOUS
<1> USE DEF GoTo, pollerVars
<1>1. CASE \/ EnterDisabled \/ EnterFails \/ SetStop \/ Join \/ Check \/ FinalSampleFails
           \/ SummaryDisabled \/ SummaryIncomplete
  <2>1. /\ main' \in {"request", "aborted", "join", "check", "final", "summary", "recorded"}
        /\ spent' = 0 /\ (stop' = stop \/ stop' = TRUE)
        /\ UNCHANGED <<limit, enabled, samples, errors, failed, rows, count>>
        /\ UNCHANGED pollerVars
    BY <1>1 DEF EnterDisabled, EnterFails, SetStop, Join, Check, FinalSampleFails,
       SummaryDisabled, SummaryIncomplete, AfterExit
  <2> QED
    BY <2>1 DEF TypeOK, FailureEnds
<1>2. CASE RequestEnds
  BY <1>2 DEF RequestEnds, TypeOK, FailureEnds
<1>3. CASE Enter
  <2>1. samples' \in Seq(Stages)
    BY <1>3, Appended DEF Enter, Stages
  <2> QED
    BY <1>3, <2>1 DEF Enter, TypeOK, FailureEnds, Places
<1>4. CASE FinalSample
  <2>1. samples' \in Seq(Stages)
    BY <1>4, Appended DEF FinalSample, Stages
  <2> QED
    BY <1>4, <2>1 DEF FinalSample, TypeOK, FailureEnds, AfterExit
<1>5. CASE Figures
  BY <1>5 DEF Figures, TypeOK, FailureEnds
<1>6. CASE Count
  <2>1. Len(samples) \in Nat
    BY LenProperties DEF TypeOK
  <2> QED
    BY <1>6, <2>1 DEF Count, TypeOK, FailureEnds
<1> QED
  BY <1>1, <1>2, <1>3, <1>4, <1>5, <1>6 DEF Main

LEMMA PollerTypes == TypeOK /\ FailureEnds /\ Samples /\ Poller => TypeOK' /\ FailureEnds'
<1> SUFFICES ASSUME TypeOK, FailureEnds, Samples, Poller PROVE TypeOK' /\ FailureEnds'
  OBVIOUS
<1> USE DEF mainVars
<1>1. CASE PollDue \/ PollStopped
  BY <1>1 DEF PollDue, PollStopped, TypeOK, FailureEnds
<1>2. CASE PollBegin
  BY <1>2, LimitNat DEF PollBegin, TypeOK, FailureEnds, Stages
<1>3. CASE PollSample
  <2>1. begun \in Stages
    BY <1>3 DEF PollSample, Samples, Stages
  <2>2. samples' \in Seq(Stages)
    BY <1>3, <2>1, Appended DEF PollSample
  <2> QED
    BY <1>3, <2>2 DEF PollSample, TypeOK, FailureEnds
<1>4. CASE PollFails
  BY <1>4 DEF PollFails, TypeOK, FailureEnds
<1> QED
  BY <1>1, <1>2, <1>3, <1>4 DEF Poller

LEMMA TickTypes == TypeOK /\ FailureEnds /\ Tick => TypeOK' /\ FailureEnds'
<1> SUFFICES ASSUME TypeOK, FailureEnds, Tick PROVE TypeOK' /\ FailureEnds'
  OBVIOUS
<1>1. spent' \in Nat /\ waited' \in Nat
  BY DEF Tick, TypeOK
<1>2. poller = "sampling" => waited' <= limit
  BY LimitNat DEF Tick, PollerBlocked, TypeOK
<1> QED
  BY <1>1, <1>2 DEF Tick, TypeOK, FailureEnds

-------------------------------------------------------------------------------
(* The threads' places.                                                    *)

LEMMA PlacesStep == TypeOK /\ Places /\ Next => Places'
<1> SUFFICES ASSUME TypeOK, Places, Next PROVE Places'
  OBVIOUS
<1>1. CASE Main
  <2> USE <1>1 DEF GoTo, pollerVars, Places, TypeOK
  <2>1. CASE EnterDisabled \/ EnterFails \/ Enter
    BY <2>1 DEF EnterDisabled, EnterFails, Enter
  <2>2. CASE RequestEnds
    BY <2>2 DEF RequestEnds
  <2>3. CASE SetStop
    BY <2>3 DEF SetStop
  <2>6. CASE Join
    <3>1. main = "join" /\ main' = "check" /\ UNCHANGED <<enabled, stop, samples, poller>>
      BY <2>6 DEF Join, JoinReturns, JoinTimesOut
    <3> QED
      BY <3>1
  <2>4. CASE Check \/ FinalSample \/ FinalSampleFails
    BY <2>4 DEF Check, FinalSample, FinalSampleFails, AfterExit
  <2>5. CASE SummaryDisabled \/ SummaryIncomplete \/ Figures \/ Count
    BY <2>5 DEF SummaryDisabled, SummaryIncomplete, Figures, Count
  <2> QED
    BY <1>1, <2>1, <2>2, <2>3, <2>4, <2>5, <2>6 DEF Main
<1>2. CASE Poller
  BY <1>2 DEF Poller, PollDue, PollBegin, PollSample, PollFails, PollStopped, mainVars, Places
<1>3. CASE Tick
  BY <1>3 DEF Tick, Places
<1> QED
  BY <1>1, <1>2, <1>3 DEF Next

-------------------------------------------------------------------------------
(* The samples.                                                            *)

\* An appended sample neither hides the first one nor the last one.
LEMMA AppendKeeps ==
  ASSUME TypeOK, NEW stage \in Stages, samples' = Append(samples, stage)
  PROVE  /\ FirstIsBefore(samples) /\ stage # "before" => FirstIsBefore(samples')
         /\ samples = <<>> /\ stage = "before" => FirstIsBefore(samples')
         /\ HasFinal(samples) \/ stage = "final" => HasFinal(samples')
<1>1. /\ samples' # <<>> /\ Len(samples) \in Nat /\ DOMAIN samples = 1..Len(samples)
      /\ DOMAIN samples' = 1..(Len(samples) + 1)
      /\ \A i \in 1..Len(samples) : samples'[i] = samples[i]
      /\ samples'[Len(samples) + 1] = stage
  BY Appended
<1>2. ASSUME FirstIsBefore(samples), stage # "before" PROVE FirstIsBefore(samples')
  <2>1. Len(samples) >= 1
    BY <1>1, <1>2, EmptySeq DEF FirstIsBefore, TypeOK
  <2>2. samples'[1] = "before"
    BY <1>1, <1>2, <2>1 DEF FirstIsBefore
  <2>3. \A i \in DOMAIN samples' : samples'[i] = "before" => i = 1
    BY <1>1, <1>2 DEF FirstIsBefore
  <2> QED
    BY <1>1, <2>2, <2>3 DEF FirstIsBefore
<1>3. ASSUME samples = <<>>, stage = "before" PROVE FirstIsBefore(samples')
  <2>1. Len(samples) = 0
    BY <1>3, EmptySeq
  <2> QED
    BY <1>1, <1>3, <2>1 DEF FirstIsBefore
<1>4. ASSUME HasFinal(samples) \/ stage = "final" PROVE HasFinal(samples')
  <2>1. CASE HasFinal(samples)
    BY <1>1, <2>1 DEF HasFinal
  <2>2. CASE stage = "final"
    BY <1>1, <2>2 DEF HasFinal
  <2> QED
    BY <1>4, <2>1, <2>2
<1> QED
  BY <1>2, <1>3, <1>4

LEMMA SamplesStep == TypeOK /\ Places /\ Samples /\ Next => Samples'
<1> SUFFICES ASSUME TypeOK, Places, Samples, Next PROVE Samples'
  OBVIOUS
<1> USE DEF Samples
<1>1. CASE Main
  <2> USE DEF GoTo, pollerVars
  <2>1. CASE EnterDisabled \/ EnterFails \/ SetStop \/ Join
    BY <2>1 DEF EnterDisabled, EnterFails, SetStop, Join
  <2>2. CASE RequestEnds
    BY <2>2 DEF RequestEnds
  <2>3. CASE Enter
    <3>1. FirstIsBefore(samples')
      BY <2>3, AppendKeeps DEF Enter, Places, Stages
    <3> QED
      BY <2>3, <3>1 DEF Enter
  <2>4. CASE Check
    BY <2>4 DEF Check, AfterExit
  <2>5. CASE FinalSample
    <3>1. enabled /\ poller # "none" /\ samples' = Append(samples, "final")
      BY <2>5 DEF FinalSample, Places
    <3>2. FirstIsBefore(samples') /\ HasFinal(samples')
      BY <3>1, AppendKeeps DEF Stages
    <3> QED
      BY <2>5, <3>2 DEF FinalSample, AfterExit
  <2>6. CASE FinalSampleFails \/ SummaryDisabled \/ SummaryIncomplete
    BY <2>6 DEF FinalSampleFails, SummaryDisabled, SummaryIncomplete
  <2>7. CASE Figures
    BY <2>7 DEF Figures, Places
  <2>8. CASE Count
    BY <2>8 DEF Count
  <2> QED
    BY <1>1, <2>1, <2>2, <2>3, <2>4, <2>5, <2>6, <2>7, <2>8 DEF Main
<1>2. CASE Poller
  <2> USE DEF mainVars
  <2>1. CASE PollDue \/ PollBegin \/ PollStopped
    BY <2>1 DEF PollDue, PollBegin, PollStopped
  <2>2. CASE PollSample
    <3>1. begun \in {"during", "late"} /\ samples' = Append(samples, begun)
      BY <2>2 DEF PollSample
    <3>2. FirstIsBefore(samples') /\ (HasFinal(samples) => HasFinal(samples'))
      BY <2>2, <3>1, AppendKeeps DEF PollSample, Stages
    <3> QED
      BY <2>2, <3>2 DEF PollSample
  <2>3. CASE PollFails
    <3>1. errors' # 0
      BY <2>3 DEF PollFails, TypeOK
    <3> QED
      BY <2>3, <3>1 DEF PollFails
  <2> QED
    BY <1>2, <2>1, <2>2, <2>3 DEF Poller
<1>3. CASE Tick
  BY <1>3 DEF Tick
<1> QED
  BY <1>1, <1>2, <1>3 DEF Next

-------------------------------------------------------------------------------
(* Late samples.                                                           *)

LEMMA AppendLate ==
  ASSUME TypeOK, NEW stage \in Stages, samples' = Append(samples, stage)
  PROVE  /\ NoneLate /\ stage # "late" => NoneLate'
         /\ (\A i, j \in DOMAIN samples : samples[i] = "late" /\ samples[j] = "late" => i = j)
            /\ (NoneLate \/ stage # "late")
            => \A i, j \in DOMAIN samples' : samples'[i] = "late" /\ samples'[j] = "late" => i = j
<1>1. /\ Len(samples) \in Nat /\ DOMAIN samples = 1..Len(samples)
      /\ \A i \in DOMAIN samples' : i \in DOMAIN samples \/ i = Len(samples) + 1
      /\ \A i \in DOMAIN samples : samples'[i] = samples[i]
      /\ samples'[Len(samples) + 1] = stage
  BY Appended
<1> QED
  BY <1>1 DEF NoneLate

LEMMA LateStep == TypeOK /\ Places /\ Samples /\ Late /\ Next => Late'
<1> SUFFICES ASSUME TypeOK, Places, Samples, Late, Next PROVE Late'
  OBVIOUS
<1>1. CASE UNCHANGED <<samples, begun>> /\ (stop' = stop \/ stop') /\ poller' \in {poller, "ended"}
  BY <1>1 DEF Late, NoneLate
<1>2. CASE Enter
  BY <1>2, AppendLate DEF Enter, Places, Late, Stages
<1>3. CASE FinalSample
  BY <1>3, AppendLate DEF FinalSample, pollerVars, Late, Stages
<1>4. CASE PollDue
  BY <1>4 DEF PollDue, mainVars, Late, NoneLate
<1>5. CASE PollBegin
  BY <1>5 DEF PollBegin, mainVars, Late, NoneLate
<1>6. CASE PollSample
  <2>1. NoneLate /\ begun \in Stages /\ samples' = Append(samples, begun)
    BY <1>6 DEF PollSample, Late, Samples, Stages
  <2> QED
    BY <1>6, <2>1, AppendLate DEF PollSample, mainVars, Late
<1> QED
  BY <1>1, <1>2, <1>3, <1>4, <1>5, <1>6 DEF Next, Main, Poller, Tick, EnterDisabled,
     EnterFails, RequestEnds, SetStop, Join, Check, FinalSampleFails, SummaryDisabled,
     SummaryIncomplete, Figures, Count, PollFails, PollStopped, mainVars, pollerVars

-------------------------------------------------------------------------------
(* The join and the sample it waits for.                                   *)

LEMMA TimesStep == TypeOK /\ Places /\ Times /\ Next => Times'
<1> SUFFICES ASSUME TypeOK, Places, Times, Next PROVE Times'
  OBVIOUS
<1>0. limit \in Nat /\ JoinTimeout \in Nat /\ spent \in Nat /\ waited \in Nat
  BY LimitNat, TimesAssumption DEF TypeOK
<1>1. CASE Main
  <2> USE DEF GoTo, pollerVars
  <2>1. CASE SetStop
    BY <1>0, <2>1 DEF SetStop, Times
  <2>2. CASE Join
    <3>1. /\ main = "join" /\ main' = "check" /\ UNCHANGED <<limit, enabled, poller>>
          /\ poller = "ended" \/ spent = JoinTimeout
      BY <2>2 DEF Join, JoinReturns, JoinTimesOut
    <3>2. enabled /\ poller \in {"waiting", "due", "sampling", "ended"}
      BY <3>1 DEF Places, TypeOK
    <3>3. limit < JoinTimeout => poller = "ended"
      BY <1>0, <3>1, <3>2 DEF Times, TypeOK
    <3> QED
      BY <3>1, <3>3 DEF Times
  <2>3. CASE EnterDisabled \/ EnterFails \/ RequestEnds
    BY <2>3 DEF EnterDisabled, EnterFails, RequestEnds, Times
  <2>4. CASE Enter
    BY <2>4 DEF Enter, Times
  <2>5. CASE Check \/ FinalSample \/ FinalSampleFails
    BY <2>5 DEF Check, FinalSample, FinalSampleFails, AfterExit, Times
  <2>6. CASE SummaryDisabled \/ SummaryIncomplete \/ Figures \/ Count
    BY <2>6 DEF SummaryDisabled, SummaryIncomplete, Figures, Count, Times
  <2> QED
    BY <1>1, <2>1, <2>2, <2>3, <2>4, <2>5, <2>6 DEF Main
<1>2. CASE Poller
  <2>1. main = "join" => stop
    BY DEF Places
  <2>2. poller # "ended" /\ UNCHANGED mainVars
    BY <1>2 DEF Poller, PollDue, PollBegin, PollSample, PollFails, PollStopped
  <2>3. enabled /\ limit < JoinTimeout =>
          main \notin {"check", "final", "summary", "count", "recorded"}
    BY <2>2 DEF Times
  <2>4. main = "join" => /\ poller' = "due" => spent = 0
                         /\ poller' = "sampling" => spent <= waited'
                         /\ poller' = "waiting" => spent <= limit
    <3>1. CASE PollDue
      BY <2>1, <3>1 DEF PollDue
    <3>2. CASE PollBegin
      BY <3>2 DEF PollBegin, Times
    \* The sample is over within its limit, and so is the wait.
    <3>3. CASE PollSample
      BY <1>0, <3>3 DEF PollSample, Times, TypeOK
    <3>4. CASE PollFails \/ PollStopped
      BY <3>4 DEF PollFails, PollStopped
    <3> QED
      BY <1>2, <3>1, <3>2, <3>3, <3>4 DEF Poller
  <2> QED
    BY <2>2, <2>3, <2>4 DEF Times, mainVars
<1>3. CASE Tick
  <2>1. main = "join" => stop
    BY DEF Places
  <2>2. UNCHANGED <<limit, enabled, main, poller>> /\ PollerBlocked
    BY <1>3 DEF Tick
  <2>3. main = "join" /\ poller = "sampling" => spent' <= waited'
    BY <1>0, <1>3 DEF Tick, Times
  <2> QED
    BY <2>1, <2>2, <2>3 DEF PollerBlocked, Times
<1> QED
  BY <1>1, <1>2, <1>3 DEF Next

LEMMA WholeStep == TypeOK /\ Times /\ Whole /\ Next => Whole'
<1> SUFFICES ASSUME TypeOK, Times, Whole, Next, (enabled /\ limit < JoinTimeout)' PROVE Whole'
  BY DEF Whole
<1>0. enabled /\ limit < JoinTimeout
  BY DEF Next, Main, Poller, Tick, EnterDisabled, Enter, EnterFails, RequestEnds, SetStop,
     Join, Check, FinalSample, FinalSampleFails, SummaryDisabled, SummaryIncomplete, Figures,
     Count, PollDue, PollBegin, PollSample, PollFails, PollStopped, mainVars
<1>1. CASE Main
  <2>1. CASE main' \notin {"count", "recorded"}
    BY <2>1 DEF Whole
  <2>2. CASE Figures
    BY <2>2 DEF Figures, GoTo, Whole
  <2>3. CASE Count
    BY <1>0, <2>3 DEF Count, GoTo, Whole
  <2>4. CASE SummaryDisabled
    BY <1>0, <2>4 DEF SummaryDisabled
  <2> QED
    BY <1>1, <2>1, <2>2, <2>3, <2>4 DEF Main, EnterDisabled, Enter, EnterFails, RequestEnds,
       SetStop, Join, Check, FinalSample, FinalSampleFails, SummaryIncomplete, GoTo, AfterExit
\* The polling thread takes no step once a figure is computed.
<1>2. CASE Poller
  <2>1. poller # "ended" /\ main' = main
    BY <1>2 DEF Poller, PollDue, PollBegin, PollSample, PollFails, PollStopped, mainVars
  <2>2. main \notin {"count", "recorded"}
    BY <1>0, <2>1 DEF Times
  <2> QED
    BY <2>1, <2>2 DEF Whole
<1>3. CASE Tick
  BY <1>0, <1>3 DEF Tick, Whole
<1> QED
  BY <1>1, <1>2, <1>3 DEF Next

-------------------------------------------------------------------------------
LEMMA SamplerStart == Init => SamplerInv
<1> SUFFICES ASSUME Init PROVE SamplerInv
  OBVIOUS
<1>1. DOMAIN samples = {} /\ samples \in Seq(Stages) /\ rows \in Seq(Stages)
  BY EmptySeq DEF Init
<1>2. TypeOK
  <2>1. enabled \in BOOLEAN /\ stop \in BOOLEAN /\ failed \in BOOLEAN
    BY DEF Init
  <2>2. errors \in 0..1 /\ spent \in Nat /\ waited \in Nat /\ count \in Nat
    BY DEF Init
  <2>3. begun \in Stages \cup {"none"} /\ main = "enter" /\ poller = "none"
    BY DEF Init
  <2> QED
    BY <1>1, <2>1, <2>2, <2>3 DEF Init, TypeOK
<1>3. FailureEnds /\ Places /\ Samples
  BY <1>1 DEF Init, FailureEnds, Places, Samples
<1>4. Late /\ Times /\ Whole
  BY <1>1 DEF Init, Late, NoneLate, Times, Whole
<1> QED
  BY <1>2, <1>3, <1>4 DEF SamplerInv

LEMMA SamplerStep == SamplerInv /\ [Next]_vars => SamplerInv'
<1> SUFFICES ASSUME SamplerInv, [Next]_vars PROVE SamplerInv'
  OBVIOUS
<1>0. TypeOK /\ FailureEnds /\ Places /\ Samples /\ Late /\ Times /\ Whole
  BY DEF SamplerInv
<1>1. CASE Next
  <2>1. TypeOK' /\ FailureEnds'
    BY <1>0, <1>1, MainTypes, PollerTypes, TickTypes DEF Next
  <2> QED
    BY <1>0, <1>1, <2>1, PlacesStep, SamplesStep, LateStep, TimesStep, WholeStep
       DEF SamplerInv
<1>2. CASE UNCHANGED vars
  <2> USE <1>2 DEF vars, mainVars, pollerVars
  <2>1. TypeOK' /\ FailureEnds' /\ Places'
    BY <1>0 DEF TypeOK, FailureEnds, Places
  <2>2. Samples' /\ Late'
    BY <1>0 DEF Samples, Late, NoneLate
  <2>3. Times' /\ Whole'
    BY <1>0 DEF Times, Whole
  <2> QED
    BY <2>1, <2>2, <2>3 DEF SamplerInv
<1> QED
  BY <1>1, <1>2

\* The inductive invariant: where either thread is, what the samples are by then, and
\* how long the join has waited.
THEOREM SamplerCorrect == Spec => []SamplerInv
  BY SamplerStart, SamplerStep, PTL DEF Spec

\* Types, and no sample beyond its limit (telemetry.GpuSampler).
THEOREM SamplerTypeCorrect == Spec => []TypeOK
  BY SamplerCorrect, PTL DEF SamplerInv

\* A record with telemetry has figures from a sample before the request and from one
\* begun after it.
THEOREM BracketsHolds == Spec => []Brackets
<1>1. SamplerInv => Brackets
  <2> SUFFICES ASSUME SamplerInv, Reported PROVE Taken("before") = {1} /\ Taken("final") # {}
    BY DEF Brackets
  <2>1. FirstIsBefore(rows) /\ HasFinal(rows) /\ rows \in Seq(Stages)
    BY DEF SamplerInv, Samples, Reported, TypeOK
  <2>2. 1 \in DOMAIN rows
    BY <2>1, EmptySeq, LenProperties DEF FirstIsBefore
  <2>3. \A i : i \in Taken("before") <=> i = 1
    BY <2>1, <2>2 DEF Taken, FirstIsBefore
  <2>4. Taken("final") # {}
    BY <2>1 DEF Taken, HasFinal
  <2> QED
    BY <2>3, <2>4
<1> QED
  BY <1>1, SamplerCorrect, PTL

\* Nothing is missing from a record, whenever a sample is shorter than the join.
THEOREM SummaryWholeHolds == Spec => []SummaryWhole
<1>1. SamplerInv => SummaryWhole
  BY DEF SamplerInv, Times, Whole, SummaryWhole, Reported
<1> QED
  BY <1>1, SamplerCorrect, PTL

\* At most one sample is begun once the request is over.
THEOREM OneLateSampleHolds == Spec => []OneLateSample
<1>1. SamplerInv => OneLateSample
  <2> SUFFICES ASSUME SamplerInv PROVE OneLateSample
    OBVIOUS
  <2> DEFINE late == {i \in DOMAIN samples : samples[i] = "late"}
  <2>1. \A i, j \in late : i = j
    BY DEF SamplerInv, Late
  <2>2. CASE late = {}
    BY <2>2, FS_EmptySet DEF OneLateSample
  <2>3. CASE late # {}
    <3>1. PICK i \in late : TRUE
      BY <2>3
    <3>2. late = {i}
      BY <2>1, <3>1
    <3> QED
      BY <3>2, FS_Singleton DEF OneLateSample
  <2> QED
    BY <2>2, <2>3
<1> QED
  BY <1>1, SamplerCorrect, PTL
===============================================================================
