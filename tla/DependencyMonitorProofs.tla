------------------------- MODULE DependencyMonitorProofs -------------------------
(***************************************************************************)
(* What DependencyMonitor publishes is backed by evidence, for any set of  *)
(* components and any number of disturbances.                              *)
(*                                                                         *)
(* The argument is about a round: as long as a component has no result,    *)
(* what its goroutine has read was there during the round, in the order    *)
(* the probe reads it, and what the host says now was there too; once it   *)
(* has a result, the evidence of the round justifies that result.          *)
(***************************************************************************)
EXTENDS DependencyMonitor, TLAPS

\* The evidence of every probe.
LEMMA EvidenceFacts ==
    ASSUME NEW c
    PROVE  /\ Len(Evidence(c)) \in Nat \ {0} /\ DOMAIN Evidence(c) = 1..Len(Evidence(c))
           /\ \A i \in 1..Len(Evidence(c)) : Evidence(c)[i] \in Evidences(c)
           /\ c = "system_tools" => /\ Len(Evidence(c)) = 3 /\ Evidence(c)[1] = "ip"
                                    /\ Evidence(c)[2] = "nft" /\ Evidence(c)[3] = "iptables"
<1>1. Len(Evidence(c)) \in Nat \ {0} /\ DOMAIN Evidence(c) = 1..Len(Evidence(c))
  <2>1. DOMAIN SystemTools = 1..3 /\ Len(SystemTools) = 3
    BY DEF SystemTools
  <2>2. DOMAIN HAProxy = 1..4 /\ Len(HAProxy) = 4
    BY DEF HAProxy
  <2>3. DOMAIN SingBox = 1..4 /\ Len(SingBox) = 4
    BY DEF SingBox
  <2>4. DOMAIN NativeInterfaces = 1..5 /\ Len(NativeInterfaces) = 5
    BY DEF NativeInterfaces
  <2>5. DOMAIN Routing = 1..5 /\ Len(Routing) = 5
    BY DEF Routing
  <2>6. DOMAIN Xray = 1..2 /\ Len(Xray) = 2
    BY DEF Xray
  <2>7. \/ Evidence(c) = SystemTools \/ Evidence(c) = HAProxy \/ Evidence(c) = SingBox
        \/ Evidence(c) = NativeInterfaces \/ Evidence(c) = Routing \/ Evidence(c) = Xray
    BY DEF Evidence
  <2> QED
    BY <2>1, <2>2, <2>3, <2>4, <2>5, <2>6, <2>7
<1>2. \A i \in 1..Len(Evidence(c)) : Evidence(c)[i] \in Evidences(c)
  BY <1>1 DEF Evidences, ToSet
<1>3. c = "system_tools" => /\ Len(Evidence(c)) = 3 /\ Evidence(c)[1] = "ip"
                            /\ Evidence(c)[2] = "nft" /\ Evidence(c)[3] = "iptables"
  BY DEF Evidence, SystemTools
<1> QED
  BY <1>1, <1>2, <1>3

\* What a goroutine may have read.
ReadValues == {"holds", "fails", "absent"}

\* A reading is a sequence no longer than the evidence of its probe.
LEMMA ReadsFacts ==
    ASSUME NEW c, NEW read \in Reads(c), read # NoReader
    PROVE  /\ read \in Seq(ReadValues) /\ Len(read) \in Nat /\ Len(read) <= Len(Evidence(c))
           /\ DOMAIN read = 1..Len(read)
<1>1. PICK n \in 0..Len(Evidence(c)) : read \in [1..n -> ReadValues]
  BY DEF Reads, BoundedSeq, SeqOf, ReadValues
<1>2. n \in Nat /\ n <= Len(Evidence(c))
  BY <1>1, EvidenceFacts
<1>3. read \in Seq(ReadValues) /\ Len(read) = n
  BY <1>1, <1>2
<1> QED
  BY <1>2, <1>3

\* Sequences that long are readings.
LEMMA SequencesAreReads ==
    ASSUME NEW c, NEW read \in Seq(ReadValues), Len(read) <= Len(Evidence(c))
    PROVE  read \in Reads(c)
<1>1. Len(read) \in 0..Len(Evidence(c)) /\ read \in [1..Len(read) -> ReadValues]
  BY EvidenceFacts
<1>2. read \in SeqOf(ReadValues, Len(Evidence(c)))
  BY <1>1 DEF SeqOf
<1> QED
  BY <1>2 DEF Reads, BoundedSeq, ReadValues

\* What a goroutine of component c has read was among `there`, and it has not decided.
Supported(c, read, there) ==
    \A i \in 1..Len(read) :
        /\ read[i] \in Values(Evidence(c)[i]) /\ <<Evidence(c)[i], read[i]>> \in there
        /\ c # "system_tools" => read[i] = "holds"

\* The reading goes on within the evidence of the probe.
LEMMA ReadOn ==
    ASSUME NEW c, NEW read \in Reads(c), Unfinished(c, read), NEW v \in ReadValues
    PROVE  LET further == Append(read, v)
               n == Len(read) + 1
           IN  /\ further \in Reads(c) /\ further # NoReader /\ further # <<>>
               /\ Len(read) \in Nat /\ n \in 1..Len(Evidence(c)) /\ Len(Evidence(c)) \in Nat
               /\ Len(further) = n /\ further[n] = v
               /\ \A i \in 1..Len(read) : further[i] = read[i] /\ read[i] \in ReadValues
<1> DEFINE further == Append(read, v)
           n == Len(read) + 1
<1>1. /\ read \in Seq(ReadValues) /\ Len(read) \in Nat /\ Len(read) < Len(Evidence(c))
      /\ n \in 1..Len(Evidence(c)) /\ n \in Nat /\ Len(Evidence(c)) \in Nat
  <2>1. read # NoReader /\ Len(read) # Len(Evidence(c))
    BY DEF Unfinished, Decided
  <2> QED
    BY <2>1, ReadsFacts, EvidenceFacts
<1>2. /\ further \in Seq(ReadValues) /\ Len(further) = n /\ further[n] = v
      /\ \A i \in 1..Len(read) : further[i] = read[i] /\ read[i] \in ReadValues
  BY <1>1
<1>3. further # <<>>
  BY <1>1, <1>2
<1> HIDE DEF further, n
<1>4. further \in Reads(c)
  <2>1. Len(further) <= Len(Evidence(c))
    BY <1>1, <1>2
  <2> QED
    BY <1>2, <2>1, SequencesAreReads
<1>5. further # NoReader
  <2>1. further[n] # "none"
    BY <1>2 DEF ReadValues
  <2>2. NoReader[1] = "none" /\ Len(NoReader) = 1
    BY DEF NoReader
  <2> QED
    BY <1>2, <2>1, <2>2
<1> QED
  BY <1>1, <1>2, <1>3, <1>4, <1>5 DEF further, n

\* A goroutine that reads on either goes on supported or answers with a status that
\* the evidence justifies.
LEMMA AnswerIsJustified ==
    ASSUME NEW c, NEW read \in Reads(c), NEW there, Unfinished(c, read), Supported(c, read, there),
           NEW v \in ReadValues, v \in Values(Evidence(c)[Len(read) + 1]),
           <<Evidence(c)[Len(read) + 1], v>> \in there
    PROVE  LET further == Append(read, v)
           IN  IF Decided(c, further) THEN Observation(c, further) \in Justified(c, there)
               ELSE Supported(c, further, there)
<1> DEFINE further == Append(read, v)
           n == Len(read) + 1
<1>1. /\ Len(read) \in Nat /\ n \in 1..Len(Evidence(c)) /\ n \in Nat
      /\ n - 1 = Len(read) /\ n = Len(read) + 1
  BY ReadOn
<1>2. /\ Len(further) = n /\ further[n] = v /\ further # <<>>
      /\ \A i \in 1..Len(read) : further[i] = read[i] /\ read[i] \in ReadValues
  BY ReadOn
<1> HIDE DEF further, n
<1>3. Len(Evidence(c)) \in Nat
  BY ReadOn
<1>4. Last(further) = v
  BY <1>2 DEF Last
<1>5. \A i \in 1..n : /\ further[i] \in Values(Evidence(c)[i]) /\ further[i] \in ReadValues
                      /\ <<Evidence(c)[i], further[i]>> \in there
                      /\ c # "system_tools" /\ i < n => further[i] = "holds"
  <2> SUFFICES ASSUME NEW i \in 1..n
               PROVE  /\ further[i] \in Values(Evidence(c)[i]) /\ further[i] \in ReadValues
                      /\ <<Evidence(c)[i], further[i]>> \in there
                      /\ c # "system_tools" /\ i < n => further[i] = "holds"
    OBVIOUS
  <2>1. CASE i = n
    BY <1>1, <1>2, <2>1 DEF n
  <2>2. CASE i # n
    <3>1. i \in 1..Len(read) /\ further[i] = read[i] /\ read[i] \in ReadValues
      BY <1>1, <1>2, <2>2
    <3> QED
      BY <3>1 DEF Supported
  <2> QED
    BY <2>1, <2>2
<1>6. CASE c = "system_tools"
  <2>1. CASE ~Decided(c, further)
    <3>1. Supported(c, further, there)
      BY <1>2, <1>5, <1>6 DEF Supported
    <3> QED
      BY <2>1, <3>1 DEF further
  <2>2. CASE Decided(c, further)
    <3>1. n = 3 /\ Evidence(c)[1] = "ip" /\ Evidence(c)[2] = "nft" /\ Evidence(c)[3] = "iptables"
      BY <1>2, <1>6, <2>2, EvidenceFacts DEF Decided
    <3>2. /\ further[1] \in {"holds", "fails"} /\ <<"ip", further[1]>> \in there
          /\ further[2] \in {"holds", "fails"} /\ <<"nft", further[2]>> \in there
          /\ further[3] \in {"holds", "fails"} /\ <<"iptables", further[3]>> \in there
      <4>1. /\ further[1] \in Values("ip") /\ further[1] \in ReadValues
            /\ further[2] \in Values("nft") /\ further[2] \in ReadValues
            /\ further[3] \in Values("iptables") /\ further[3] \in ReadValues
            /\ <<"ip", further[1]>> \in there /\ <<"nft", further[2]>> \in there
            /\ <<"iptables", further[3]>> \in there
        <5>1. 1 \in 1..n /\ 2 \in 1..n /\ 3 \in 1..n
          BY <3>1
        <5> QED
          BY <1>5, <3>1, <5>1
      <4> QED
        BY <4>1 DEF Values, Absentable, ReadValues
    <3>3. Observation(c, further) = ToolsObservation(further)
      BY <1>6 DEF Observation
    <3>4. ToolsObservation(further) \in Justified(c, there)
      BY <1>6, <3>1, <3>2 DEF ToolsObservation, Justified, Was
    <3> QED
      BY <2>2, <3>3, <3>4 DEF further
  <2> QED
    BY <2>1, <2>2
<1>7. CASE c # "system_tools"
  <2>1. CASE ~Decided(c, further)
    <3>1. v = "holds"
      BY <1>2, <1>4, <1>7, <2>1 DEF Decided
    <3>2. Supported(c, further, there)
      <4>1. \A i \in 1..n : i = n \/ i < n
        BY <1>1
      <4> QED
        BY <1>2, <1>5, <3>1, <4>1 DEF Supported
    <3> QED
      BY <2>1, <3>2 DEF further
  <2>2. CASE Decided(c, further)
    <3>1. ASSUME NEW i \in 1..(n - 1) PROVE <<Evidence(c)[i], "holds">> \in there
      <4>1. i \in 1..n /\ i < n
        BY <1>1
      <4> QED
        BY <1>5, <1>7, <4>1
    <3>2. <<Evidence(c)[n], v>> \in there /\ n \in DOMAIN Evidence(c)
      BY <1>1, EvidenceFacts DEF n
    <3>3. CASE v = "absent"
      <4>1. Observation(c, further) = "disabled"
        BY <1>4, <1>7, <3>3 DEF Observation
      <4>2. "disabled" \in Justified(c, there)
        BY <1>7, <3>1, <3>2, <3>3 DEF Justified, Was
      <4> QED
        BY <2>2, <4>1, <4>2 DEF further
    <3>4. CASE v = "fails"
      <4>1. Observation(c, further) = "unhealthy"
        BY <1>4, <1>7, <3>4 DEF Observation
      <4>2. "unhealthy" \in Justified(c, there)
        BY <1>7, <3>1, <3>2, <3>4 DEF Justified, Was
      <4> QED
        BY <2>2, <4>1, <4>2 DEF further
    <3>5. CASE v = "holds"
      <4>1. Observation(c, further) = "healthy"
        BY <1>4, <1>7, <3>5 DEF Observation
      <4>2. n = Len(Evidence(c))
        BY <1>2, <1>4, <1>7, <2>2, <3>5 DEF Decided
      <4>3. \A i \in DOMAIN Evidence(c) : <<Evidence(c)[i], "holds">> \in there
        <5>1. \A i \in 1..n : i = n \/ i \in 1..(n - 1)
          BY <1>1
        <5>2. DOMAIN Evidence(c) = 1..n
          BY <4>2, EvidenceFacts
        <5> QED
          BY <3>1, <3>2, <3>5, <5>1, <5>2
      <4>4. "healthy" \in Justified(c, there)
        BY <1>7, <4>3 DEF Justified, Was
      <4> QED
        BY <2>2, <4>1, <4>4 DEF further
    <3> QED
      BY <3>3, <3>4, <3>5 DEF ReadValues
  <2> QED
    BY <2>1, <2>2
<1> QED
  BY <1>6, <1>7

\* More evidence justifies more, and supports what it supported.
LEMMA MoreEvidence ==
    ASSUME NEW c, NEW there, NEW now, there \subseteq now
    PROVE  /\ Justified(c, there) \subseteq Justified(c, now)
           /\ \A read : Supported(c, read, there) => Supported(c, read, now)
<1>1. \A e, values : Was(there, e, values) => Was(now, e, values)
  BY DEF Was
<1>2. Justified(c, there) \subseteq Justified(c, now)
  BY <1>1 DEF Justified
<1>3. \A read : Supported(c, read, there) => Supported(c, read, now)
  BY DEF Supported
<1> QED
  BY <1>2, <1>3

\* An answer that is late makes its component unhealthy.
LEMMA LateIsUnhealthy ==
    ASSUME NEW c, NEW there, <<"answer", "late">> \in there
    PROVE  "unhealthy" \in Justified(c, there)
  BY DEF Justified

\* A probe that decides observes one of the statuses.
LEMMA ObservationFacts == \A c, read : Observation(c, read) \in Statuses
<1> SUFFICES ASSUME NEW c, NEW read PROVE Observation(c, read) \in Statuses
  OBVIOUS
<1>1. CASE c = "system_tools"
  BY <1>1 DEF Observation, ToolsObservation, Statuses
<1>2. CASE c # "system_tools"
  BY <1>2 DEF Observation, Statuses
<1> QED
  BY <1>1, <1>2

-------------------------------------------------------------------------------
(* The inductive invariant.                                                *)

Shapes ==
    /\ DOMAIN world = Components /\ \A c \in Components : DOMAIN world[c] = Evidences(c)
    /\ DOMAIN reading = Components /\ DOMAIN stray = Components /\ DOMAIN during = Components

\* A component of the round has a result its evidence justifies, or has shown in the
\* round what it would show now and what its goroutine has read.
Backed(c) ==
    IF result[c] = NoAnswer
    THEN /\ \A e \in Evidences(c) : <<e, world[c][e]>> \in during[c]
         /\ reading[c] # NoReader => Supported(c, reading[c], during[c])
    ELSE result[c] \in Justified(c, during[c])

\* What the counts of the last round tell about its evidence.
Counted(c) ==
    /\ failures[c] > 0 => failing[c]
    /\ published[c] = "unhealthy" => successes[c] = 0

MInv ==
    /\ TypeOK /\ Shapes /\ StatusIsWitnessed
    /\ round = "probing" => \A c \in Components : Backed(c)
    /\ \A c \in Components : Counted(c)

\* Nothing has been read or published.
LEMMA MInvInit == Init => MInv
<1> SUFFICES ASSUME Init PROVE MInv
  OBVIOUS
<1>1. \A c \in Components : NoReader \in Reads(c)
  BY DEF Reads
<1>2. PICK new \in {"holds", "absent"} :
          world = [c \in Components |-> [e \in Evidences(c) |->
                      IF e \in {"configuration", "installation"} THEN new ELSE "holds"]]
  BY DEF Init
<1>3. Shapes
  BY <1>2 DEF Init, Shapes
<1>4. \A c \in Components : \A e \in Evidences(c) : world[c][e] \in Values(e)
  BY <1>2 DEF Values, Absentable
<1>5. TypeOK
  <2>1. /\ result \in [Components -> {NoAnswer} \cup Statuses]
        /\ published \in [Components -> {NoAnswer} \cup Statuses]
        /\ \A c \in Components : published[c] # "unhealthy"
    BY DEF Init, NoAnswer
  <2>2. /\ failures \in [Components -> 0..failureThreshold]
        /\ successes \in [Components -> 0..recoveryThreshold]
        /\ disturbances \in 0..MaxDisturbances
    BY MonitorAssumption DEF Init, failureThreshold, recoveryThreshold
  <2>3. \A c \in Components : reading[c] \in Reads(c) /\ stray[c] \in Reads(c)
    BY <1>1 DEF Init
  <2> QED
    BY <1>4, <2>1, <2>2, <2>3 DEF Init, TypeOK
<1>6. StatusIsWitnessed /\ \A c \in Components : Counted(c)
  BY DEF Init, StatusIsWitnessed, Counted, NoAnswer
<1>7. round = "idle"
  BY DEF Init
<1> QED
  BY <1>3, <1>5, <1>6, <1>7 DEF MInv

\* What the host says and a goroutine can read is among the values of the evidence.
LEMMA ReadableValue ==
    ASSUME MInv, NEW c \in Components, NEW read \in Reads(c), CanRead(c, read)
    PROVE  LET e == Evidence(c)[Len(read) + 1]
           IN  /\ e \in Evidences(c) /\ world[c][e] \in ReadValues /\ world[c][e] \in Values(e)
               /\ Unfinished(c, read)
<1>1. Unfinished(c, read) /\ world[c][Evidence(c)[Len(read) + 1]] # "hangs"
  BY DEF CanRead
<1>2. Len(read) + 1 \in 1..Len(Evidence(c))
  BY <1>1, ReadOn DEF ReadValues
<1>3. Evidence(c)[Len(read) + 1] \in Evidences(c)
  BY <1>2, EvidenceFacts
<1>4. world[c][Evidence(c)[Len(read) + 1]] \in Values(Evidence(c)[Len(read) + 1])
  BY <1>3 DEF MInv, TypeOK
<1> QED
  BY <1>1, <1>3, <1>4 DEF Values, ReadValues

\* A goroutine reads on and ends when it has decided.
LEMMA EndedFacts ==
    ASSUME MInv, NEW c \in Components, NEW read \in Reads(c), CanRead(c, read)
    PROVE  Ended(c, Further(c, read)) \in Reads(c)
<1> DEFINE v == world[c][Evidence(c)[Len(read) + 1]]
<1>1. Unfinished(c, read) /\ v \in ReadValues
  BY ReadableValue
<1>2. Append(read, v) \in Reads(c) /\ NoReader \in Reads(c)
  BY <1>1, ReadOn DEF Reads
<1> QED
  BY <1>2 DEF Further, Ended

\* A round starts with new goroutines and the evidence of its first moment.
LEMMA StartRoundKeeps == ASSUME MInv, StartRound PROVE MInv'
<1>1. \A c \in Components : <<>> \in Reads(c)
  <2>1. <<>> \in Seq(ReadValues) /\ Len(<<>>) = 0
    OBVIOUS
  <2>2. \A c : Len(<<>>) <= Len(Evidence(c))
    BY <2>1, EvidenceFacts
  <2> QED
    BY <2>1, <2>2, SequencesAreReads
<1>2. /\ \A c \in Components : reading'[c] = <<>> /\ stray'[c] \in {stray[c], reading[c]}
      /\ DOMAIN reading' = Components /\ DOMAIN stray' = Components /\ DOMAIN during' = Components
      /\ result' = [c \in Components |-> NoAnswer]
      /\ \A c \in Components : during'[c] = {<<e, world[c][e]>> : e \in Evidences(c)}
      /\ round' = "probing"
      /\ UNCHANGED <<world, stopping, published, failures, successes, disturbances, failing, witnessed>>
  BY DEF StartRound, states, history
<1>3. TypeOK'
  BY <1>1, <1>2 DEF MInv, TypeOK
<1>4. Shapes' /\ StatusIsWitnessed'
  BY <1>2 DEF MInv, Shapes, StatusIsWitnessed
<1>5. ASSUME NEW c \in Components PROVE Backed(c)'
  <2>1. \A there : Supported(c, <<>>, there)
    BY DEF Supported
  <2>2. result'[c] = NoAnswer /\ reading'[c] = <<>>
    BY <1>2
  <2>3. \A e \in Evidences(c) : <<e, world'[c][e]>> \in during'[c]
    BY <1>2
  <2> QED
    BY <2>1, <2>2, <2>3 DEF Backed
<1>6. \A c \in Components : Counted(c)'
  BY <1>2 DEF MInv, Counted
<1> QED
  BY <1>3, <1>4, <1>5, <1>6 DEF MInv

\* A goroutine of the round reads on, or answers as the evidence justifies.
LEMMA ReadKeeps == ASSUME MInv, NEW c \in Components, Read(c) PROVE MInv'
<1> DEFINE read == reading[c]
           v == world[c][Evidence(c)[Len(read) + 1]]
           further == Further(c, read)
<1>1. /\ CanRead(c, read) /\ read \in Reads(c)
      /\ reading' = [reading EXCEPT ![c] = Ended(c, further)]
      /\ result' = Delivered(c, further, "current")
      /\ UNCHANGED <<world, stopping, round, stray, published, failures, successes, disturbances,
                     during, failing, witnessed>>
  BY DEF Read, states, history, MInv, TypeOK
<1>2. /\ Unfinished(c, read) /\ v \in ReadValues /\ v \in Values(Evidence(c)[Len(read) + 1])
      /\ Evidence(c)[Len(read) + 1] \in Evidences(c) /\ Ended(c, further) \in Reads(c)
  BY <1>1, ReadableValue, EndedFacts
<1>3. /\ result' \in [Components -> {NoAnswer} \cup Statuses]
      /\ \A d \in Components \ {c} : result'[d] = result[d] /\ reading'[d] = reading[d]
      /\ reading'[c] = Ended(c, further)
      /\ result'[c] = IF Decided(c, further) /\ result[c] = NoAnswer
                      THEN Observation(c, further) ELSE result[c]
  BY <1>1, ObservationFacts DEF Delivered, MInv, TypeOK, Shapes
<1>4. TypeOK'
  BY <1>1, <1>2, <1>3 DEF MInv, TypeOK
<1>5. Shapes' /\ StatusIsWitnessed'
  BY <1>1 DEF MInv, Shapes, StatusIsWitnessed
<1>6. ASSUME round = "probing" PROVE Backed(c)'
  <2>1. Backed(c)
    BY <1>6 DEF MInv
  <2>2. CASE result[c] # NoAnswer
    BY <1>1, <1>3, <2>1, <2>2 DEF Backed
  <2>3. CASE result[c] = NoAnswer
    <3>1. /\ <<Evidence(c)[Len(read) + 1], v>> \in during[c] /\ Supported(c, read, during[c])
          /\ further = Append(read, v)
      BY <1>2, <2>1, <2>3 DEF Backed, Unfinished, Further
    <3>2. IF Decided(c, further) THEN Observation(c, further) \in Justified(c, during[c])
          ELSE Supported(c, further, during[c])
      BY <1>1, <1>2, <3>1, AnswerIsJustified
    <3> HIDE DEF further, read, v
    <3>3. CASE Decided(c, further)
      <4>1. result'[c] = Observation(c, further) /\ result'[c] # NoAnswer
        BY <1>3, <2>3, <3>3, ObservationFacts DEF Statuses, NoAnswer
      <4> QED
        BY <1>1, <3>2, <3>3, <4>1 DEF Backed
    <3>4. CASE ~Decided(c, further)
      <4>1. result'[c] = NoAnswer /\ reading'[c] = further
        BY <1>3, <2>3, <3>4 DEF Ended
      <4> QED
        BY <1>1, <2>1, <2>3, <3>2, <3>4, <4>1 DEF Backed
    <3> QED
      BY <3>3, <3>4
  <2> QED
    BY <2>2, <2>3
<1>7. ASSUME round = "probing", NEW d \in Components \ {c} PROVE Backed(d)'
  <2>1. Backed(d)
    BY <1>7 DEF MInv
  <2> QED
    BY <1>1, <1>3, <2>1 DEF Backed
<1>8. \A d \in Components : Counted(d)'
  BY <1>1 DEF MInv, Counted
<1> QED
  BY <1>1, <1>4, <1>5, <1>6, <1>7, <1>8 DEF MInv

\* A goroutine left over from an earlier round answers nobody.
LEMMA ReadLateKeeps == ASSUME MInv, NEW c \in Components, ReadLate(c) PROVE MInv'
<1>1. /\ CanRead(c, stray[c]) /\ stray[c] \in Reads(c)
      /\ stray' = [stray EXCEPT ![c] = Ended(c, Further(c, stray[c]))] /\ result' = result
      /\ UNCHANGED <<world, stopping, round, reading, published, failures, successes, disturbances,
                     during, failing, witnessed>>
  BY DEF ReadLate, Delivered, states, history, MInv, TypeOK
<1>2. Ended(c, Further(c, stray[c])) \in Reads(c)
  BY <1>1, EndedFacts
<1>3. TypeOK'
  BY <1>1, <1>2 DEF MInv, TypeOK, Shapes
<1>4. Shapes' /\ StatusIsWitnessed' /\ \A d \in Components : Counted(d)'
  BY <1>1 DEF MInv, Shapes, StatusIsWitnessed, Counted
<1>5. round' = "probing" => \A d \in Components : Backed(d)'
  BY <1>1 DEF MInv, Backed
<1> QED
  BY <1>3, <1>4, <1>5 DEF MInv

\* A probe that has not answered in time is unhealthy.
LEMMA TimeOutKeeps ==
    ASSUME MInv, NEW c \in Components, TimeOut(c), disturbances' \in 0..MaxDisturbances
    PROVE  MInv'
<1>1. /\ round = "probing"
      /\ result' = [result EXCEPT ![c] = "unhealthy"]
      /\ during' = [during EXCEPT ![c] = @ \cup {<<"answer", "late">>}]
      /\ UNCHANGED <<world, stopping, round, reading, stray, published, failures, successes,
                     failing, witnessed>>
  BY DEF TimeOut, failedDependencyObservation, goroutines, states, history
<1>2. /\ result' \in [Components -> {NoAnswer} \cup Statuses]
      /\ \A d \in Components \ {c} : result'[d] = result[d] /\ during'[d] = during[d]
      /\ result'[c] = "unhealthy" /\ <<"answer", "late">> \in during'[c]
      /\ DOMAIN during' = Components
  BY <1>1 DEF MInv, TypeOK, Shapes, Statuses
<1>3. TypeOK'
  BY <1>1, <1>2 DEF MInv, TypeOK
<1>4. Shapes' /\ StatusIsWitnessed' /\ \A d \in Components : Counted(d)'
  BY <1>1, <1>2 DEF MInv, Shapes, StatusIsWitnessed, Counted
<1>5. Backed(c)'
  BY <1>2, LateIsUnhealthy DEF Backed, NoAnswer
<1>6. ASSUME NEW d \in Components \ {c} PROVE Backed(d)'
  <2>1. Backed(d)
    BY <1>1 DEF MInv
  <2> QED
    BY <1>1, <1>2, <2>1 DEF Backed
<1> QED
  BY <1>3, <1>4, <1>5, <1>6 DEF MInv

\* Change of the host: what it shows now has been there.
LEMMA ChangeKeeps == ASSUME MInv, Change PROVE MInv'
<1>c. PICK c \in Components : \E e \in Evidences(c) : \E v \in Values(e) :
          /\ world' = [world EXCEPT ![c][e] = v]
          /\ during' = IF round = "probing" /\ result[c] = NoAnswer
                       THEN [during EXCEPT ![c] = @ \cup {<<e, v>>}] ELSE during
  BY DEF Change
<1>e. PICK e \in Evidences(c) : \E v \in Values(e) :
          /\ world' = [world EXCEPT ![c][e] = v]
          /\ during' = IF round = "probing" /\ result[c] = NoAnswer
                       THEN [during EXCEPT ![c] = @ \cup {<<e, v>>}] ELSE during
  BY <1>c
<1>1. PICK v \in Values(e) :
          /\ world' = [world EXCEPT ![c][e] = v]
          /\ during' = IF round = "probing" /\ result[c] = NoAnswer
                       THEN [during EXCEPT ![c] = @ \cup {<<e, v>>}] ELSE during
  BY <1>e
<1>2. UNCHANGED <<stopping, round, reading, stray, result, published, failures, successes,
                  failing, witnessed>>
  BY DEF Change, goroutines, states, history
<1>3. disturbances' \in 0..MaxDisturbances
  <2>1. disturbances \in 0..MaxDisturbances /\ disturbances < MaxDisturbances
        /\ disturbances' = disturbances + 1 /\ MaxDisturbances \in Nat
    BY MonitorAssumption DEF Change, Disturb, MInv, TypeOK
  <2> QED
    BY <2>1
<1>4. /\ DOMAIN world' = Components /\ DOMAIN world'[c] = Evidences(c)
      /\ \A d \in Components \ {c} : world'[d] = world[d]
      /\ \A f \in Evidences(c) : world'[c][f] = IF f = e THEN v ELSE world[c][f]
  BY <1>1 DEF MInv, Shapes
<1>5. /\ DOMAIN during' = Components /\ \A d \in Components \ {c} : during'[d] = during[d]
      /\ during'[c] = IF round = "probing" /\ result[c] = NoAnswer
                      THEN during[c] \cup {<<e, v>>} ELSE during[c]
  BY <1>1 DEF MInv, Shapes
<1>6. TypeOK'
  <2>1. \A d \in Components : \A f \in Evidences(d) : world'[d][f] \in Values(f)
    BY <1>1, <1>4 DEF MInv, TypeOK
  <2> QED
    BY <1>2, <1>3, <2>1 DEF MInv, TypeOK
<1>7. Shapes' /\ StatusIsWitnessed' /\ \A d \in Components : Counted(d)'
  BY <1>2, <1>4, <1>5 DEF MInv, Shapes, StatusIsWitnessed, Counted
<1>8. ASSUME round = "probing" PROVE Backed(c)'
  <2>1. Backed(c)
    BY <1>8 DEF MInv
  <2>2. CASE result[c] = NoAnswer
    <3>1. during'[c] = during[c] \cup {<<e, v>>}
      BY <1>5, <1>8, <2>2
    <3>2. \A f \in Evidences(c) : <<f, world'[c][f]>> \in during'[c]
      BY <1>4, <2>1, <2>2, <3>1 DEF Backed
    <3>3. reading[c] # NoReader => Supported(c, reading[c], during'[c])
      <4>1. during[c] \subseteq during'[c]
        BY <3>1
      <4>2. reading[c] # NoReader => Supported(c, reading[c], during[c])
        BY <2>1, <2>2 DEF Backed
      <4> QED
        BY <4>1, <4>2, MoreEvidence
    <3> QED
      BY <1>2, <2>2, <3>2, <3>3 DEF Backed
  <2>3. CASE result[c] # NoAnswer
    BY <1>2, <1>5, <2>1, <2>3 DEF Backed
  <2> QED
    BY <2>2, <2>3
<1>9. ASSUME round = "probing", NEW d \in Components \ {c} PROVE Backed(d)'
  <2>1. Backed(d)
    BY <1>9 DEF MInv
  <2> QED
    BY <1>2, <1>4, <1>5, <2>1 DEF Backed
<1> QED
  BY <1>2, <1>6, <1>7, <1>8, <1>9 DEF MInv

\* The daemon's context is done; the round goes on.
LEMMA StopKeeps == ASSUME MInv, Stop PROVE MInv'
<1>1. UNCHANGED <<world, round, reading, stray, result, published, failures, successes, during,
                  failing, witnessed>> /\ stopping' \in BOOLEAN
  BY DEF Stop, goroutines, states, history
<1>2. disturbances' \in 0..MaxDisturbances
  <2>1. disturbances \in 0..MaxDisturbances /\ disturbances < MaxDisturbances
        /\ disturbances' = disturbances + 1 /\ MaxDisturbances \in Nat
    BY MonitorAssumption DEF Stop, Disturb, MInv, TypeOK
  <2> QED
    BY <2>1
<1>3. TypeOK'
  BY <1>1, <1>2 DEF MInv, TypeOK
<1>4. Shapes' /\ StatusIsWitnessed' /\ \A d \in Components : Counted(d)'
  BY <1>1 DEF MInv, Shapes, StatusIsWitnessed, Counted
<1>5. round' = "probing" => \A d \in Components : Backed(d)'
  BY <1>1 DEF MInv, Backed
<1> QED
  BY <1>3, <1>4, <1>5 DEF MInv

\* What a round publishes for a component, its counts included.
LEMMA PublishedStatus ==
    ASSUME MInv, NEW c \in Components, round = "probing", result[c] # NoAnswer
    PROVE  /\ Status(c) \in Statuses
           /\ Failures(c) \in 0..failureThreshold /\ Successes(c) \in 0..recoveryThreshold
           /\ Status(c) \in Justified(c, during[c]) \cup {"degraded"}
           /\ Status(c) = "unhealthy" => failing[c] /\ Failures(c) = failureThreshold /\ Successes(c) = 0
           /\ Status(c) = "healthy" => published[c] # "unhealthy"
           /\ Failures(c) > 0 => "unhealthy" \in Justified(c, during[c])
<1>1. /\ failures[c] \in 0..2 /\ successes[c] \in 0..2 /\ result[c] \in Statuses
      /\ result[c] \in Justified(c, during[c])
      /\ failures[c] > 0 => failing[c]
      /\ published[c] = "unhealthy" => successes[c] = 0
  BY DEF MInv, TypeOK, Backed, Counted, failureThreshold, recoveryThreshold
<1>2. /\ Failures(c) = IF result[c] = "unhealthy" THEN Least(failures[c] + 1, 2) ELSE 0
      /\ Successes(c) = IF result[c] = "healthy" THEN Least(successes[c] + 1, 2) ELSE 0
  BY DEF Failures, Successes, failureThreshold, recoveryThreshold
<1>3. \A n \in 0..2 : /\ Least(n + 1, 2) \in 1..2 /\ (Least(n + 1, 2) < 2 <=> n = 0)
                      /\ (Least(n + 1, 2) = 2 <=> n > 0)
  BY DEF Least
<1>4. Failures(c) \in 0..2 /\ Successes(c) \in 0..2
  BY <1>1, <1>2, <1>3
<1>5. Status(c) \in {result[c], "degraded"}
  BY DEF Status
<1>6. ASSUME Status(c) = "unhealthy"
      PROVE  failing[c] /\ Failures(c) = 2 /\ Successes(c) = 0
  <2>1. result[c] = "unhealthy"
    BY <1>5, <1>6
  <2>2. ~(Failures(c) < 2)
    BY <1>6, <2>1 DEF Status, failureThreshold
  <2> QED
    BY <1>1, <1>2, <1>3, <2>1, <2>2
<1>7. ASSUME Status(c) = "healthy" PROVE published[c] # "unhealthy"
  <2>1. result[c] = "healthy"
    BY <1>5, <1>7
  <2>2. ~(published[c] = "unhealthy" /\ Successes(c) < 2)
    BY <1>7, <2>1 DEF Status, recoveryThreshold
  <2> QED
    BY <1>1, <1>2, <1>3, <2>1, <2>2
<1>8. Failures(c) > 0 => "unhealthy" \in Justified(c, during[c])
  BY <1>1, <1>2
<1>9. Status(c) \in Statuses
  BY <1>1, <1>5 DEF Statuses
<1> QED
  BY <1>1, <1>4, <1>5, <1>6, <1>7, <1>8, <1>9 DEF failureThreshold, recoveryThreshold

\* A round publishes what its evidence justifies.
LEMMA PublishKeeps == ASSUME MInv, Publish PROVE MInv'
<1>1. /\ round = "probing" /\ \A c \in Components : result[c] # NoAnswer
      /\ round' = "idle" /\ UNCHANGED <<world, stopping, reading, stray, disturbances>>
      /\ published' = [c \in Components |-> Status(c)]
      /\ failures' = [c \in Components |-> Failures(c)]
      /\ successes' = [c \in Components |-> Successes(c)]
      /\ result' = [c \in Components |-> NoAnswer] /\ DOMAIN during' = Components
      /\ failing' = [c \in Components |-> "unhealthy" \in Justified(c, during[c])]
  BY DEF Publish, goroutines
<1>2. witnessed' = [c \in Components |->
                        /\ published'[c] \in Justified(c, during[c]) \cup {"degraded"}
                        /\ published'[c] = "unhealthy" => failing[c]
                        /\ published'[c] = "healthy" => published[c] # "unhealthy"]
  BY DEF Publish
<1>3. ASSUME NEW c \in Components
      PROVE  /\ published'[c] = Status(c) /\ failures'[c] = Failures(c) /\ successes'[c] = Successes(c)
             /\ Status(c) \in Statuses
             /\ Failures(c) \in 0..failureThreshold /\ Successes(c) \in 0..recoveryThreshold
             /\ Status(c) \in Justified(c, during[c]) \cup {"degraded"}
             /\ Status(c) = "unhealthy" =>
                    failing[c] /\ Failures(c) = failureThreshold /\ Successes(c) = 0
             /\ Status(c) = "healthy" => published[c] # "unhealthy"
             /\ Failures(c) > 0 => "unhealthy" \in Justified(c, during[c])
  BY <1>1, PublishedStatus
<1>4. ASSUME NEW c \in Components PROVE witnessed'[c] /\ witnessed'[c] \in BOOLEAN
  BY <1>2, <1>3
<1>5. ASSUME NEW c \in Components PROVE Counted(c)'
  BY <1>1, <1>3 DEF Counted
<1>6. TypeOK'
  <2>1. /\ published' \in [Components -> {NoAnswer} \cup Statuses]
        /\ result' \in [Components -> {NoAnswer} \cup Statuses]
        /\ failures' \in [Components -> 0..failureThreshold]
        /\ successes' \in [Components -> 0..recoveryThreshold]
    BY <1>1, <1>3
  <2>2. failing' \in [Components -> BOOLEAN]
    BY <1>1
  <2>3. witnessed' \in [Components -> BOOLEAN]
    BY <1>2
  <2>4. \A c \in Components : published'[c] = "unhealthy" => failures'[c] = failureThreshold
    BY <1>3
  <2> QED
    BY <1>1, <2>1, <2>2, <2>3, <2>4 DEF MInv, TypeOK
<1>7. Shapes' /\ StatusIsWitnessed'
  BY <1>1, <1>4 DEF MInv, Shapes, StatusIsWitnessed
<1> QED
  BY <1>1, <1>5, <1>6, <1>7 DEF MInv

\* Every step keeps the invariant.
LEMMA MInvNext == MInv /\ [Next]_vars => MInv'
<1> SUFFICES ASSUME MInv, [Next]_vars PROVE MInv'
  OBVIOUS
<1>1. ASSUME NEW c \in Components, Expire(c) PROVE MInv'
  <2>1. TimeOut(c) /\ disturbances' = disturbances /\ disturbances \in 0..MaxDisturbances
    BY <1>1 DEF Expire, MInv, TypeOK
  <2> QED
    BY <2>1, TimeOutKeeps
<1>2. ASSUME NEW c \in Components, BeLate(c) PROVE MInv'
  <2>1. /\ TimeOut(c) /\ disturbances' = disturbances + 1 /\ disturbances < MaxDisturbances
        /\ disturbances \in 0..MaxDisturbances /\ MaxDisturbances \in Nat
    BY <1>2, MonitorAssumption DEF BeLate, Disturb, MInv, TypeOK
  <2>2. disturbances' \in 0..MaxDisturbances
    BY <2>1
  <2> QED
    BY <2>1, <2>2, TimeOutKeeps
<1>3. CASE UNCHANGED vars
  <2>1. UNCHANGED <<world, stopping, round, reading, stray, result, published, failures, successes,
                    disturbances, during, failing, witnessed>>
    BY <1>3 DEF vars, goroutines, states, history
  <2>2. TypeOK' /\ Shapes' /\ StatusIsWitnessed' /\ \A d \in Components : Counted(d)'
    BY <2>1 DEF MInv, TypeOK, Shapes, StatusIsWitnessed, Counted
  <2>3. round' = "probing" => \A d \in Components : Backed(d)'
    BY <2>1 DEF MInv, Backed
  <2> QED
    BY <2>2, <2>3 DEF MInv
<1> QED
  BY <1>1, <1>2, <1>3, StartRoundKeeps, PublishKeeps, ChangeKeeps, StopKeeps, ReadKeeps, ReadLateKeeps
  DEF Next

\* The invariant holds in every reachable state.
THEOREM MonitorInvariantHolds == Spec => []MInv
  BY MInvInit, MInvNext, PTL DEF Spec

\* Every variable keeps its type; what is published as unhealthy has failed as often
\* as the threshold asks (Monitor.RunOnce).
THEOREM TypeCorrectness == Spec => []TypeOK
<1>1. MInv => TypeOK
  BY DEF MInv
<1> QED
  BY <1>1, MonitorInvariantHolds, PTL

\* What is published was justified by evidence of its round, unhealthy by that of the
\* round before as well, and a component never goes from unhealthy to healthy in one
\* round, whatever answers late, hangs or changes meanwhile (Monitor.RunOnce, probe).
THEOREM StatusIsBacked == Spec => []StatusIsWitnessed
<1>1. MInv => StatusIsWitnessed
  BY DEF MInv
<1> QED
  BY <1>1, MonitorInvariantHolds, PTL

===============================================================================
