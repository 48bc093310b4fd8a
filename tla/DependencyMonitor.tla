--------------------------- MODULE DependencyMonitor ---------------------------
(***************************************************************************)
(* The dependency monitor of egressd: a loop that probes every component   *)
(* in a goroutine of its own, waits for all answers or their timeouts and  *)
(* publishes the debounced result in one step                              *)
(* (internal/reliability/monitor.go), with the probes the daemon gives it  *)
(* (internal/app/dependency_health.go).                                    *)
(*                                                                         *)
(* A probe reads one piece of evidence after another and stops at the      *)
(* first that decides; mutations and the rest of the host change what it   *)
(* is about to read, because the monitor takes no lock.  A probe that does *)
(* not come back in time leaves a goroutine behind that may answer in any  *)
(* later round.                                                            *)
(***************************************************************************)
EXTENDS Naturals, Sequences, SequencesExt

CONSTANTS
    Components,     \* the components probed
    MaxDisturbances \* bound on changes of the host, answers that are late though
                    \* nothing hangs, and the daemon's end, together

ASSUME MonitorAssumption ==
    /\ Components \subseteq {"system_tools", "haproxy", "singbox", "native_interfaces",
                             "routing", "xray"}
    /\ MaxDisturbances \in Nat

VARIABLES
    world,      \* world[c][e]: what evidence e of component c would say now
    stopping,   \* the daemon's context is done
    round,      \* "idle", or "probing" while RunOnce waits
    reading,    \* reading[c]: what this round's goroutine has read
    stray,      \* stray[c]: what a goroutine left over from an earlier round has read
    result,     \* result[c]: the observation in this round's channel
    published,  \* published[c]: DependencyStatus.Status
    failures,   \* failures[c]: ConsecutiveFailures, up to the threshold
    successes,  \* successes[c]: consecutiveSuccesses, up to the threshold
    disturbances,
    during,     \* history: during[c]: evidence there was in this round until its result
    failing,    \* history: failing[c]: the last round had evidence of a failure
    witnessed   \* history: witnessed[c]: what is published had evidence in its rounds

goroutines == <<reading, stray>>
states == <<published, failures, successes>>
history == <<failing, witnessed>>
vars == <<world, stopping, round, goroutines, result, states, disturbances, during, history>>

-------------------------------------------------------------------------------
(* The probes.                                                             *)

SystemTools == <<"ip", "nft", "iptables">>
HAProxy == <<"configuration", "executable", "check", "runtime">>
SingBox == <<"configuration", "executable", "check", "service">>
NativeInterfaces == <<"configuration", "tools", "plan", "runtime", "handshakes">>
Routing == <<"bypass", "configuration", "inventory", "plan", "runtime">>
Xray == <<"installation", "check">>

\* The evidence a probe reads, in its order.
Evidence(c) == CASE c = "system_tools" -> SystemTools
                 [] c = "haproxy" -> HAProxy
                 [] c = "singbox" -> SingBox
                 [] c = "native_interfaces" -> NativeInterfaces
                 [] c = "routing" -> Routing
                 [] OTHER -> Xray

\* "absent": the component is not configured, is bypassed or is not managed.
Absentable == {"bypass", "configuration", "installation"}
Values(e) == {"holds", "fails", "hangs"} \cup (IF e \in Absentable THEN {"absent"} ELSE {})

\* The tools are all tried, and one of the firewall tools is enough.
ToolsObservation(read) ==
    IF read[1] = "holds" /\ (read[2] = "holds" \/ read[3] = "holds")
    THEN "healthy" ELSE "unhealthy"

\* disabledDependency and unhealthyDependency, at the first evidence that decides.
Observation(c, read) ==
    IF c = "system_tools" THEN ToolsObservation(read)
    ELSE CASE Last(read) = "absent" -> "disabled"
           [] Last(read) = "holds"  -> "healthy"
           [] OTHER                 -> "unhealthy"

Decided(c, read) ==
    \/ Len(read) = Len(Evidence(c))
    \/ c # "system_tools" /\ read # <<>> /\ Last(read) # "holds"

\* Faulty variant: the status stays what UnknownDependencyObservation made it.
unsetDependencyObservation == "unknown"

\* A probe that fails, answers nonsense or does not answer is unhealthy.
failedDependencyObservation == "unhealthy"

-------------------------------------------------------------------------------
(* Rounds.                                                                 *)

failureThreshold == 2
recoveryThreshold == 2

NoAnswer == "none"
NoReader == <<"none">>  \* there is no goroutine

Evidences(c) == ToSet(Evidence(c))
Reads(c) == {NoReader} \cup BoundedSeq({"holds", "fails", "absent"}, Len(Evidence(c)))
Statuses == {"healthy", "degraded", "unhealthy", "disabled"}

TypeOK ==
    /\ \A c \in Components : \A e \in Evidences(c) : world[c][e] \in Values(e)
    /\ stopping \in BOOLEAN /\ round \in {"idle", "probing"}
    /\ \A c \in Components : reading[c] \in Reads(c) /\ stray[c] \in Reads(c)
    /\ result \in [Components -> {NoAnswer} \cup Statuses]
    /\ published \in [Components -> {NoAnswer} \cup Statuses]
    /\ failures \in [Components -> 0..failureThreshold]
    /\ successes \in [Components -> 0..recoveryThreshold]
    /\ disturbances \in 0..MaxDisturbances
    /\ failing \in [Components -> BOOLEAN] /\ witnessed \in [Components -> BOOLEAN]
    /\ \A c \in Components : published[c] = "unhealthy" => failures[c] = failureThreshold

\* Everything works, or nothing is configured yet.
Init ==
    /\ \E new \in {"holds", "absent"} :
          world = [c \in Components |-> [e \in Evidences(c) |->
                      IF e \in {"configuration", "installation"} THEN new ELSE "holds"]]
    /\ stopping = FALSE /\ round = "idle"
    /\ reading = [c \in Components |-> NoReader]
    /\ stray = [c \in Components |-> NoReader]
    /\ result = [c \in Components |-> NoAnswer]
    /\ published = [c \in Components |-> NoAnswer]
    /\ failures = [c \in Components |-> 0] /\ successes = [c \in Components |-> 0]
    /\ disturbances = 0
    /\ during = [c \in Components |-> {}]
    /\ failing = [c \in Components |-> FALSE] /\ witnessed = [c \in Components |-> TRUE]

\* The daemon ends when its context is done and the round is over.
Running == ~stopping \/ round = "probing"

Disturb == disturbances < MaxDisturbances /\ disturbances' = disturbances + 1

Unfinished(c, read) == read # NoReader /\ ~Decided(c, read)

\* RunOnce: one goroutine per probe; one that has not come back stays behind.
StartRound ==
    /\ round = "idle" /\ ~stopping
    /\ round' = "probing"
    /\ stray' = [c \in Components |-> IF reading[c] = NoReader THEN stray[c] ELSE reading[c]]
    /\ reading' = [c \in Components |-> <<>>]
    /\ result' = [c \in Components |-> NoAnswer]
    /\ during' = [c \in Components |-> {<<e, world[c][e]>> : e \in Evidences(c)}]
    /\ UNCHANGED <<world, stopping, states, disturbances, history>>

\* The next piece of evidence, unless reading it does not come back.
CanRead(c, read) == Unfinished(c, read) /\ world[c][Evidence(c)[Len(read) + 1]] # "hangs"
Further(c, read) == Append(read, world[c][Evidence(c)[Len(read) + 1]])
Ended(c, read) == IF Decided(c, read) THEN NoReader ELSE read

\* Faulty variant: the rounds share a channel.
DeliveredToAnyRound(c, read, age) ==
    IF Decided(c, read) /\ round = "probing" /\ result[c] = NoAnswer
    THEN [result EXCEPT ![c] = Observation(c, read)] ELSE result

\* An answer goes into the channel of the goroutine's own round, and the first of
\* an answer and the timeout counts.
Delivered(c, read, age) ==
    IF age = "current" /\ Decided(c, read) /\ result[c] = NoAnswer
    THEN [result EXCEPT ![c] = Observation(c, read)] ELSE result

Read(c) ==
    /\ CanRead(c, reading[c])
    /\ LET read == Further(c, reading[c])
       IN  /\ reading' = [reading EXCEPT ![c] = Ended(c, read)]
           /\ result' = Delivered(c, read, "current")
    /\ UNCHANGED <<world, stopping, round, stray, states, disturbances, during, history>>

ReadLate(c) ==
    /\ CanRead(c, stray[c]) /\ Running
    /\ LET read == Further(c, stray[c])
       IN  /\ stray' = [stray EXCEPT ![c] = Ended(c, read)]
           /\ result' = Delivered(c, read, "earlier")
    /\ UNCHANGED <<world, stopping, round, reading, states, disturbances, during, history>>

TimeOut(c) ==
    /\ round = "probing" /\ result[c] = NoAnswer
    /\ result' = [result EXCEPT ![c] = failedDependencyObservation]
    /\ during' = [during EXCEPT ![c] = @ \cup {<<"answer", "late">>}]
    /\ UNCHANGED <<world, stopping, round, goroutines, states, history>>

\* The probe hangs, or the context of the daemon is done.
Expire(c) == (stopping \/ ~CanRead(c, reading[c])) /\ TimeOut(c) /\ UNCHANGED disturbances

\* The probe would have answered, but later than the timeout.
BeLate(c) == Disturb /\ TimeOut(c)

-------------------------------------------------------------------------------
(* Publishing.                                                             *)

Least(a, b) == IF a < b THEN a ELSE b

Successes(c) == IF result[c] = "healthy"
                THEN Least(successes[c] + 1, recoveryThreshold) ELSE 0

\* Faulty variant: a failure while degraded starts a new count.
FailuresRestarted(c) ==
    IF result[c] = "unhealthy"
    THEN IF published[c] = "degraded" THEN 1 ELSE Least(failures[c] + 1, failureThreshold)
    ELSE 0

Failures(c) == IF result[c] = "unhealthy" THEN Least(failures[c] + 1, failureThreshold) ELSE 0

\* Recovering, failing once, or as observed.
Status(c) ==
    IF \/ /\ result[c] = "healthy" /\ published[c] = "unhealthy"
          /\ Successes(c) < recoveryThreshold
       \/ result[c] = "unhealthy" /\ Failures(c) < failureThreshold
    THEN "degraded" ELSE result[c]

\* The statuses that evidence `there` can justify: each piece of it had the value at
\* some moment of the round.
Was(there, e, values) == \E v \in values : <<e, v>> \in there
Justified(c, there) ==
    LET held(i) == Was(there, Evidence(c)[i], {"holds"})
        before(i) == \A j \in 1..(i - 1) : held(j)
        stops(values) == \E i \in DOMAIN Evidence(c) :
                             before(i) /\ Was(there, Evidence(c)[i], values)
        late == <<"answer", "late">> \in there
    IN  IF c = "system_tools"
        THEN {s \in {"healthy"} : held(1) /\ (held(2) \/ held(3))}
             \cup {s \in {"unhealthy"} :
                      \/ late \/ Was(there, "ip", {"fails"})
                      \/ Was(there, "nft", {"fails"}) /\ Was(there, "iptables", {"fails"})}
        ELSE {s \in {"healthy"} : \A i \in DOMAIN Evidence(c) : held(i)}
             \cup {s \in {"disabled"} : stops({"absent"})}
             \cup {s \in {"unhealthy"} : late \/ stops({"fails"})}

\* The results of the round are published under one lock, with one time.
Publish ==
    /\ round = "probing" /\ \A c \in Components : result[c] # NoAnswer
    /\ round' = "idle"
    /\ published' = [c \in Components |-> Status(c)]
    /\ failures' = [c \in Components |-> Failures(c)]
    /\ successes' = [c \in Components |-> Successes(c)]
    /\ result' = [c \in Components |-> NoAnswer]
    /\ failing' = [c \in Components |-> "unhealthy" \in Justified(c, during[c])]
    /\ witnessed' = [c \in Components |->
                        /\ published'[c] \in Justified(c, during[c]) \cup {"degraded"}
                        /\ published'[c] = "unhealthy" => failing[c]
                        /\ published'[c] = "healthy" => published[c] # "unhealthy"]
    /\ during' = [c \in Components |-> {}]
    /\ UNCHANGED <<world, stopping, goroutines, disturbances>>

-------------------------------------------------------------------------------
(* The host and the daemon.                                                *)

Change ==
    /\ Disturb /\ Running
    /\ \E c \in Components : \E e \in Evidences(c) : \E v \in Values(e) \ {world[c][e]} :
          /\ world' = [world EXCEPT ![c][e] = v]
          /\ during' = IF round = "probing" /\ result[c] = NoAnswer
                       THEN [during EXCEPT ![c] = @ \cup {<<e, v>>}] ELSE during
    /\ UNCHANGED <<stopping, round, goroutines, result, states, history>>

Stop ==
    /\ Disturb /\ ~stopping /\ stopping' = TRUE
    /\ UNCHANGED <<world, round, goroutines, result, states, during, history>>

Next ==
    \/ StartRound \/ Publish \/ Change \/ Stop
    \/ \E c \in Components : Read(c) \/ ReadLate(c) \/ Expire(c) \/ BeLate(c)

\* The ticker starts rounds, goroutines are scheduled, and the timeout of a probe
\* that hangs expires.  Nothing is assumed of goroutines left behind.
Fairness ==
    /\ WF_vars(StartRound) /\ WF_vars(Publish)
    /\ \A c \in Components : WF_vars(Read(c)) /\ WF_vars(Expire(c))

Spec == Init /\ [][Next]_vars /\ Fairness

-------------------------------------------------------------------------------
(* Properties.                                                             *)

\* What recovery.status shows is backed by evidence of the round that published it,
\* each piece of it true at some moment of that round; "unhealthy" is backed by the
\* round before as well, and no round leads from unhealthy to healthy ("One failed
\* sample publishes degraded; two consecutive failures publish unhealthy. An
\* unhealthy dependency requires two successful samples to return to healthy",
\* docs/recovery/README.md:17).  Answers that come after their timeout, and
\* goroutines of earlier rounds that go on reading, change nothing.
StatusIsWitnessed == \A c \in Components : witnessed[c]

\* What a component is now, when nothing changes.
Present(c) ==
    LET values == [i \in DOMAIN Evidence(c) |-> world[c][Evidence(c)[i]]]
        first == SelectInSeq(values, LAMBDA v : v # "holds")
    IN  IF c = "system_tools"
        THEN IF "hangs" \in ToSet(values) THEN "unhealthy" ELSE ToolsObservation(values)
        ELSE IF first = 0 THEN "healthy"
             ELSE IF values[first] = "absent" THEN "disabled" ELSE "unhealthy"

\* A component that stays as it is, working, broken, hanging or turned off, is in
\* the end published as that, however often it flapped before and whatever other
\* components do.
HealthConverges ==
    \A c \in Components : \A s \in {"healthy", "disabled", "unhealthy"} :
        <>[](Present(c) = s /\ ~stopping) => <>[](published[c] = s)

===============================================================================
