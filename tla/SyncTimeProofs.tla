--------------------------- MODULE SyncTimeProofs ---------------------------
(***************************************************************************)
(* Theorems about SyncTime, for every width of the sequence number, every  *)
(* timeout and any number of packets.                                      *)
(*                                                                         *)
(* That no pair is missed needs no assumption at all.  That the two times  *)
(* of a pair belong to one packet needs those the design makes: the node   *)
(* handles a packet before the next one ends, the central updates its      *)
(* payload within a packet interval, and no more than SeqMod packets pass  *)
(* between two that the node handles.                                      *)
(***************************************************************************)
EXTENDS SyncTime, TLAPS

-----------------------------------------------------------------------------
(***************************************************************************)
(* Arithmetic of the sequence number.                                      *)
(***************************************************************************)

\* The remainder is what is left when multiples are taken away.
LEMMA Remainder ==
  ASSUME NEW m \in Nat \ {0}, NEW a \in Int
  PROVE  /\ (a % m) \in 0 .. m - 1
         /\ \E q \in Int : a = m * q + (a % m)
<1>1. (a % m) \in 0 .. m - 1
  OBVIOUS
<1>2. \E q \in Int : a = m * q + (a % m)
  <2>1. m \in Int /\ m > 0
    OBVIOUS
  <2>2. QED
    BY <2>1
<1>3. QED
  BY <1>1, <1>2

\* There is only one.
LEMMA RemainderUnique ==
  ASSUME NEW m \in Nat \ {0}, NEW a \in Int, NEW q \in Int, NEW r \in 0 .. m - 1,
         a = m * q + r
  PROVE  a % m = r
OBVIOUS

\* Counting on from the remainder is counting on from the number.
LEMMA CountOn ==
  ASSUME NEW m \in Nat \ {0}, NEW a \in Int
  PROVE  ((a % m) + 1) % m = (a + 1) % m
<1>1. PICK r \in 0 .. m - 1 : r = a % m
  BY Remainder
<1>2. PICK q \in Int : a = m * q + r
  BY <1>1, Remainder
<1>3. CASE r + 1 < m
  <2>1. PICK b \in Int, s \in 0 .. m - 1 : b = a + 1 /\ s = r + 1
    BY <1>3
  <2>2. b = m * q + s /\ s = m * 0 + s
    BY <1>2, <2>1
  <2>3. b % m = s
    BY <2>2, RemainderUnique
  <2>4. s % m = s
    BY <2>2, RemainderUnique
  <2>5. QED
    BY <1>1, <2>1, <2>3, <2>4
<1>4. CASE r + 1 = m
  <2>1. PICK b \in Int, p \in Int : b = a + 1 /\ p = q + 1
    OBVIOUS
  <2>2. b = m * p + 0 /\ m = m * 1 + 0 /\ 0 \in 0 .. m - 1
    BY <1>2, <1>4, <2>1
  <2>3. b % m = 0
    BY <2>2, RemainderUnique
  <2>4. m % m = 0
    BY <2>2, RemainderUnique
  <2>5. QED
    BY <1>1, <1>4, <2>1, <2>3, <2>4
<1>5. QED
  BY <1>3, <1>4

\* Of the numbers a to a + m the one after a is known by its remainder.
LEMMA NextIsKnown ==
  ASSUME NEW m \in Nat \ {0}, m > 1, NEW a \in Int, NEW b \in Int, a <= b, b <= a + m,
         b % m = (a + 1) % m
  PROVE  b = a + 1
<1>1. PICK r \in 0 .. m - 1 : r = b % m
  BY Remainder
<1>2. PICK q \in Int : b = m * q + r
  BY <1>1, Remainder
<1>3. PICK p \in Int : a + 1 = m * p + r
  <2>1. a + 1 \in Int
    OBVIOUS
  <2>2. QED
    BY <1>1, <2>1, Remainder
<1>4. PICK k \in Int : k = q - p
  OBVIOUS
<1>5. m * q - m * p = m * k
  BY <1>4
<1>6. b - (a + 1) = m * k
  BY <1>2, <1>3, <1>5
<1>7. m * k < m /\ m * k > -m
  BY <1>6
<1>8. k = 0
  BY <1>7
<1>9. QED
  BY <1>6, <1>8

-----------------------------------------------------------------------------
(***************************************************************************)
(* What a payload and a report say.                                        *)
(***************************************************************************)
Report == [sync : Sync, pkt : Nat]

\* A time comes with its sequence number.
Stamped(s) == s.valid => s.time \in Nat /\ s.seq = s.time % SeqMod

\* A report carries a valid time.
Reported(r) == r.sync.valid /\ Stamped(r.sync)

\* The types, and that the node expects the number after the last it handled.
StampInv ==
  /\ TypeOK
  /\ Stamped(hdr) /\ Stamped(air) /\ Stamped(on_air)
  /\ \A k \in 1 .. Len(reports) : Reported(reports[k])
  /\ last_adv_valid => heard.time \in Nat /\ last_adv_seq = (heard.time + 1) % SeqMod

\* The constants, and the payload before the first packet
LEMMA Constants ==
  /\ SeqMod \in Nat \ {0} /\ Timeout \in Nat
  /\ None \in Sync /\ ~None.valid /\ None.time = -1
BY SyncTimeAssumption DEF None, Sync, SeqNo

\* Nothing is sent at first.
LEMMA StampInit == Init => StampInv
<1> SUFFICES ASSUME Init PROVE StampInv
  OBVIOUS
<1>1. TypeOK
  <2>1. reports \in Seq([sync : Sync, pkt : Nat])
    BY DEF Init
  <2>2. 0 \in SeqNo /\ 0 \in 0 .. Timeout
    BY Constants DEF SeqNo
  <2>3. heard \in [pkt : Int, time : Int] /\ sample \in [local : Int, central : Int]
    BY DEF Init, NoSample
  <2>4. QED
    BY <2>1, <2>2, <2>3, Constants DEF Init, TypeOK
<1>2. Stamped(None)
  BY Constants DEF Stamped
<1>3. QED
  BY <1>1, <1>2 DEF Init, StampInv

\* The interrupt at the end of a packet gives its time the next number.
LEMMA IsrStamps ==
  ASSUME StampInv, PacketIsr
  PROVE  /\ hdr' \in Sync /\ Stamped(hdr') /\ sent' = sent + 1 /\ sent' \in Nat
         /\ sending' = FALSE /\ update_work' \in BOOLEAN
         /\ hdr' = hdr \/ hdr'.time = sent
<1>1. sent \in Nat /\ hdr \in Sync /\ update_work \in BOOLEAN /\ Stamped(hdr)
  BY DEF StampInv, TypeOK
<1>2. CASE hdr' = [valid |-> TRUE, seq |-> IsrSeq, time |-> sent] /\ update_work' = TRUE
  <2>1. IsrSeq \in SeqNo
    BY <1>1, Constants, Remainder DEF IsrSeq, SeqNo
  <2>2. hdr' \in Sync
    BY <1>1, <1>2, <2>1 DEF Sync
  <2>3. Stamped(hdr')
    BY <1>1, <1>2 DEF Stamped, IsrSeq
  <2>4. QED
    BY <1>1, <1>2, <2>2, <2>3 DEF PacketIsr
<1>3. CASE UNCHANGED <<hdr, update_work>>
  BY <1>1, <1>3 DEF PacketIsr
<1>4. QED
  BY <1>2, <1>3 DEF PacketIsr

\* The three ends of a packet that the radio knows
LEMMA EndKeepsStamps ==
  ASSUME StampInv, packet_end
  PROVE  StampInv'
<1>1. /\ hdr' \in Sync /\ Stamped(hdr') /\ sent' \in Nat /\ sending' = FALSE
      /\ update_work' \in BOOLEAN /\ UNCHANGED <<air, on_air, timerVars, synced>>
  BY IsrStamps DEF packet_end, PacketIsr
<1>2. /\ sent \in Nat /\ on_air \in Sync /\ Stamped(on_air) /\ capture \in Int
      /\ missed \in 0 .. Timeout /\ reports \in Seq(Report)
      /\ \A k \in 1 .. Len(reports) : Reported(reports[k])
  BY DEF StampInv, TypeOK, Report
<1>3. /\ reports' \in Seq(Report)
      /\ \A k \in 1 .. Len(reports') : Reported(reports'[k])
  <2>1. CASE UNCHANGED reports
    BY <1>2, <2>1
  <2>2. CASE on_air.valid /\ reports' = Append(reports, [sync |-> on_air, pkt |-> sent])
    <3>1. PICK r : r = [sync |-> on_air, pkt |-> sent]
      OBVIOUS
    <3>2. r \in Report /\ Reported(r)
      BY <1>2, <2>2, <3>1 DEF Report, Reported
    <3>3. /\ reports' \in Seq(Report) /\ Len(reports') = Len(reports) + 1
          /\ reports'[Len(reports) + 1] = r
          /\ \A k \in 1 .. Len(reports) : reports'[k] = reports[k]
      BY <1>2, <2>2, <3>1, <3>2
    <3>4. ASSUME NEW k \in 1 .. Len(reports') PROVE Reported(reports'[k])
      <4>1. Len(reports) \in Nat
        BY <1>2
      <4>2. k = Len(reports) + 1 \/ k \in 1 .. Len(reports)
        BY <3>3, <4>1
      <4>3. QED
        BY <1>2, <3>2, <3>3, <4>2
    <3>5. QED
      BY <3>3, <3>4
  <2>3. QED
    BY <2>1, <2>2 DEF packet_end, Intact, Corrupt, Lost
<1>4. missed' \in 0 .. Timeout /\ capture' \in Int
  BY <1>2, Constants DEF packet_end, Intact, Corrupt, Lost
<1>5. TypeOK'
  BY <1>1, <1>3, <1>4 DEF StampInv, TypeOK, Report, timerVars
<1>6. QED
  BY <1>1, <1>3, <1>5 DEF StampInv, timerVars

\* What the node remembers of a report
LEMMA RecvKeepsStamps ==
  ASSUME StampInv, sync_timer_recv_adv
  PROVE  /\ StampInv'
         /\ heard' = [pkt |-> reports[1].pkt, time |-> reports[1].sync.time]
         /\ last_adv_valid' = TRUE /\ last_adv_time' = capture
         /\ reports' = Tail(reports) /\ Len(reports) > 0
         /\ reports[1] \in Report /\ Reported(reports[1])
         /\ sample' = IF last_adv_valid /\ reports[1].sync.seq = last_adv_seq
                      THEN [local |-> last_adv_time, central |-> reports[1].sync.time]
                      ELSE NoSample
<1>1. /\ reports \in Seq(Report) /\ reports # <<>>
      /\ \A k \in 1 .. Len(reports) : Reported(reports[k])
      /\ capture \in Int /\ last_adv_time \in Int
  BY DEF StampInv, TypeOK, Report, sync_timer_recv_adv
<1>2. PICK r : r = reports[1]
  OBVIOUS
<1>3. Head(reports) = r /\ Len(reports) > 0 /\ r \in Report /\ Reported(r)
      /\ Tail(reports) \in Seq(Report) /\ Len(Tail(reports)) = Len(reports) - 1
      /\ \A k \in 1 .. Len(reports) - 1 : Tail(reports)[k] = reports[k + 1]
  BY <1>1, <1>2
<1>4. /\ r.sync \in Sync /\ r.sync.time \in Nat /\ r.sync.seq = r.sync.time % SeqMod
      /\ r.pkt \in Nat
  BY <1>3 DEF Report, Reported, Stamped
<1>5. /\ heard' = [pkt |-> r.pkt, time |-> r.sync.time]
      /\ last_adv_valid' = TRUE /\ last_adv_time' = capture /\ reports' = Tail(reports)
      /\ last_adv_seq' = (r.sync.seq + 1) % SeqMod
      /\ UNCHANGED <<centralVars, synced, missed, capture>>
      /\ sample' = IF last_adv_valid /\ r.sync.seq = last_adv_seq
                   THEN [local |-> last_adv_time, central |-> r.sync.time] ELSE NoSample
  BY <1>3 DEF sync_timer_recv_adv, Expected, NextSeq, CapturedTime
<1>6. last_adv_seq' = (r.sync.time + 1) % SeqMod /\ last_adv_seq' \in SeqNo
  <2>1. PICK t \in Nat : t = r.sync.time
    BY <1>4
  <2>2. ((t % SeqMod) + 1) % SeqMod = (t + 1) % SeqMod
    <3>1. PICK m \in Nat \ {0} : m = SeqMod
      BY Constants
    <3>2. t \in Int
      OBVIOUS
    <3>3. ((t % m) + 1) % m = (t + 1) % m
      BY <3>2, CountOn
    <3>4. QED
      BY <3>1, <3>3
  <2>3. (t + 1) % SeqMod \in SeqNo
    <3>1. t + 1 \in Int
      OBVIOUS
    <3>2. QED
      BY <3>1, Constants, Remainder DEF SeqNo
  <2>4. QED
    BY <1>4, <1>5, <2>1, <2>2, <2>3
<1>7. sample' \in [local : Int, central : Int] /\ heard' \in [pkt : Int, time : Int]
  BY <1>1, <1>4, <1>5 DEF NoSample
<1>8. TypeOK'
  BY <1>1, <1>3, <1>5, <1>6, <1>7 DEF StampInv, TypeOK, centralVars, Report
<1>9. \A k \in 1 .. Len(reports') : Reported(reports'[k])
  <2>1. ASSUME NEW k \in 1 .. Len(reports') PROVE Reported(reports'[k])
    <3>1. Len(reports) \in Nat
      BY <1>1
    <3>2. k \in 1 .. Len(reports) - 1 /\ k + 1 \in 1 .. Len(reports)
      BY <1>3, <1>5, <3>1
    <3>3. QED
      BY <1>1, <1>3, <1>5, <3>2
  <2>2. QED
    BY <2>1
<1>10. heard'.time = r.sync.time
  BY <1>5
<1>11. StampInv'
  BY <1>4, <1>5, <1>6, <1>8, <1>9, <1>10 DEF StampInv, centralVars
<1>12. QED
  BY <1>2, <1>3, <1>5, <1>11

\* Every step keeps the stamps.
LEMMA StampStep == StampInv /\ [Next]_vars => StampInv'
<1> SUFFICES ASSUME StampInv, [Next]_vars PROVE StampInv'
  OBVIOUS
<1>1. CASE packet_begin
  BY <1>1 DEF packet_begin, timerVars, StampInv, TypeOK
<1>2. CASE packet_end
  BY <1>2, EndKeepsStamps
<1>3. CASE sync_adv_update_handler
  BY <1>3 DEF sync_adv_update_handler, Payload, timerVars, StampInv, TypeOK
<1>4. CASE sync_started
  BY <1>4, Constants DEF sync_started, timerVars, centralVars, StampInv, TypeOK
<1>5. CASE sync_terminated
  <2>1. reports' = <<>> /\ missed' = 0 /\ synced' = FALSE
    BY <1>5 DEF sync_terminated
  <2>2. reports' \in Seq([sync : Sync, pkt : Nat]) /\ Len(reports') = 0
    BY <2>1
  <2>3. missed' \in 0 .. Timeout
    BY <2>1, Constants
  <2>4. TypeOK'
    BY <1>5, <2>1, <2>2, <2>3 DEF sync_terminated, timerVars, centralVars, StampInv, TypeOK
  <2>5. QED
    BY <1>5, <2>2, <2>4 DEF sync_terminated, timerVars, centralVars, StampInv
<1>6. CASE sync_timer_recv_adv
  BY <1>6, RecvKeepsStamps
<1>7. CASE UNCHANGED vars
  BY <1>7 DEF vars, timerVars, centralVars, StampInv, TypeOK
<1>8. QED
  BY <1>1, <1>2, <1>3, <1>4, <1>5, <1>6, <1>7 DEF Next

\* Whatever is lost, late or terminated: of two packets handled one after the
\* other, each with the time of the packet right before it, the second gives the
\* clock estimate a pair, at the wrap of the sequence number too
\* (sync_timer.c:135-147).
THEOREM NoPairIsMissed == Spec => EveryPairSampled
<1>1. ASSUME StampInv, [Next]_vars
      PROVE  [( /\ last_adv_valid /\ heard'.pkt = heard.pkt + 1
                /\ heard.time = heard.pkt - 1 /\ heard'.time = heard'.pkt - 1 )
              => sample' # NoSample]_vars
  <2> SUFFICES ASSUME Next, last_adv_valid, heard'.pkt = heard.pkt + 1,
                      heard.time = heard.pkt - 1, heard'.time = heard'.pkt - 1
               PROVE  sample' # NoSample
    BY <1>1
  <2>1. heard \in [pkt : Int, time : Int]
    BY <1>1 DEF StampInv, TypeOK
  <2>2. heard' # heard
    BY <2>1
  <2>3. sync_timer_recv_adv
    BY <2>2 DEF Next, packet_begin, packet_end, sync_adv_update_handler, sync_started,
       sync_terminated, timerVars
  <2>4. PICK r : r = reports[1]
    OBVIOUS
  <2>5. /\ heard' = [pkt |-> r.pkt, time |-> r.sync.time] /\ Reported(r)
        /\ sample' = IF last_adv_valid /\ r.sync.seq = last_adv_seq
                     THEN [local |-> last_adv_time, central |-> r.sync.time] ELSE NoSample
    BY <1>1, <2>3, <2>4, RecvKeepsStamps
  <2>6. r.sync.time = heard.time + 1 /\ r.sync.time \in Nat
        /\ r.sync.seq = r.sync.time % SeqMod
    BY <2>1, <2>5 DEF Reported, Stamped
  <2>7. last_adv_seq = (heard.time + 1) % SeqMod
    BY <1>1 DEF StampInv
  <2>8. sample' = [local |-> last_adv_time, central |-> r.sync.time]
    BY <2>5, <2>6, <2>7
  <2>9. QED
    BY <2>6, <2>8 DEF NoSample
<1>2. QED
  BY <1>1, StampInit, StampStep, PTL DEF Spec, EveryPairSampled

-----------------------------------------------------------------------------
(***************************************************************************)
(* The capture register.                                                   *)
(***************************************************************************)

\* The node handles each packet before the next one ends.
ThreadServed == "busy" \notin Faults

\* The register still holds the time of the report that waits, and only one does.
CaptureInv ==
  /\ Len(reports) <= 1
  /\ Len(reports) = 1 => capture = reports[1].pkt
  /\ LastAdvTime

\* At the end of a packet no report waits, so that the new one has the capture.
LEMMA EndReports ==
  ASSUME ThreadServed, StampInv, packet_end
  PROVE  \/ reports' = reports /\ (capture' = capture \/ Len(reports) = 0)
         \/ /\ synced /\ Len(reports) = 0 /\ on_air.valid /\ capture' = sent
            /\ reports' = <<[sync |-> on_air, pkt |-> sent]>>
            /\ on_air.time - heard.time <= SeqMod \/ "gap" \in Faults
<1>1. CASE synced /\ (Intact \/ Corrupt \/ Lost)
  <2>1. reports = <<>> /\ (on_air.time - heard.time <= SeqMod \/ "gap" \in Faults)
    <3>1. synced /\ (synced => reports = <<>> /\ (on_air.time - heard.time <= SeqMod \/ "gap" \in Faults))
      BY <1>1 DEF packet_end, ThreadServed
    <3>2. QED
      BY <3>1
  <2>2. Len(reports) = 0
    BY <2>1
  <2>3. CASE on_air.valid /\ Intact
    <3>1. reports' = Append(<<>>, [sync |-> on_air, pkt |-> sent]) /\ capture' = sent
      BY <2>1, <2>3 DEF Intact
    <3>2. reports' = <<[sync |-> on_air, pkt |-> sent]>>
      BY <3>1
    <3>3. QED
      BY <1>1, <2>1, <2>2, <2>3, <3>1, <3>2
  <2>4. CASE (~on_air.valid /\ Intact) \/ Corrupt \/ Lost
    BY <2>2, <2>4 DEF Intact, Corrupt, Lost
  <2>5. QED
    BY <1>1, <2>3, <2>4
<1>2. CASE UNCHANGED <<missed, capture, reports>>
  BY <1>2
<1>3. QED
  BY <1>1, <1>2 DEF packet_end

\* Every step keeps the capture.
LEMMA CaptureStep ==
  ASSUME ThreadServed, StampInv, CaptureInv, [Next]_vars
  PROVE  CaptureInv'
<1>0. reports \in Seq(Report) /\ sent \in Nat
  BY DEF StampInv, TypeOK, Report
<1>1. CASE packet_end
  <2>1. UNCHANGED <<last_adv_valid, last_adv_time, heard>>
    BY <1>1 DEF packet_end, timerVars
  <2>2. LastAdvTime'
    BY <2>1 DEF CaptureInv, LastAdvTime
  <2>3. CASE reports' = reports /\ (capture' = capture \/ Len(reports) = 0)
    BY <2>2, <2>3 DEF CaptureInv
  <2>4. CASE reports' = <<[sync |-> on_air, pkt |-> sent]>> /\ capture' = sent
    <3>1. PICK r : r = [sync |-> on_air, pkt |-> sent]
      OBVIOUS
    <3>2. r.pkt = sent
      BY <3>1
    <3>3. reports' = <<r>>
      BY <2>4, <3>1
    <3>4. Len(reports') = 1 /\ reports'[1] = r
      BY <3>3
    <3>5. QED
      BY <2>2, <2>4, <3>2, <3>4 DEF CaptureInv
  <2>5. QED
    BY <1>1, <2>3, <2>4, EndReports
<1>2. CASE sync_timer_recv_adv
  <2>1. /\ heard' = [pkt |-> reports[1].pkt, time |-> reports[1].sync.time]
        /\ last_adv_time' = capture /\ reports' = Tail(reports) /\ Len(reports) > 0
    BY <1>2, RecvKeepsStamps
  <2>2. Len(reports) = 1
    <3>1. PICK n \in Nat : n = Len(reports)
      BY <1>0
    <3>2. n <= 1 /\ n > 0
      BY <2>1, <3>1 DEF CaptureInv
    <3>3. QED
      BY <3>1, <3>2
  <2>3. capture = reports[1].pkt
    BY <2>2 DEF CaptureInv
  <2>4. Len(reports') = 0
    BY <1>0, <2>1, <2>2
  <2>5. heard'.pkt = reports[1].pkt
    BY <2>1
  <2>6. QED
    BY <2>1, <2>3, <2>4, <2>5 DEF CaptureInv, LastAdvTime
<1>3. CASE packet_begin \/ sync_adv_update_handler \/ sync_started \/ UNCHANGED vars
  BY <1>3 DEF packet_begin, sync_adv_update_handler, sync_started, vars, timerVars,
     CaptureInv, LastAdvTime
<1>4. CASE sync_terminated
  BY <1>4 DEF sync_terminated, timerVars, CaptureInv, LastAdvTime
<1>5. QED
  BY <1>1, <1>2, <1>3, <1>4 DEF Next

\* No report waits at first.
LEMMA CaptureInit == Init => CaptureInv
BY DEF Init, CaptureInv, LastAdvTime

\* The node keeps for each packet the capture of that packet, as long as it
\* handles it before the next one ends (sync_timer.c:43).
THEOREM CaptureIsThePackets == ThreadServed => (Spec => []LastAdvTime)
<1> SUFFICES ASSUME ThreadServed PROVE Spec => []LastAdvTime
  OBVIOUS
<1>1. StampInv /\ CaptureInv /\ [Next]_vars => CaptureInv'
  BY CaptureStep
<1>2. CaptureInv => LastAdvTime
  BY DEF CaptureInv
<1>3. QED
  BY <1>1, <1>2, StampInit, StampStep, CaptureInit, PTL DEF Spec

-----------------------------------------------------------------------------
(***************************************************************************)
(* The pairs.                                                              *)
(***************************************************************************)

\* What the design takes for granted: the central gives the controller its new
\* payload before the next packet, the node handles each packet before the next
\* one ends, and it does not miss as many as there are sequence numbers.
InTime ==
  /\ {"busy", "late", "gap"} \cap Faults = {}
  /\ SeqMod > 1

\* A payload carries the time of a packet sent before it, the latest that the
\* central heard of; what comes after packet pkt carries the same time as pkt
\* did, or a time that is not before the end of pkt.
OrderInv ==
  /\ hdr.time < sent
  /\ ~update_work => air = hdr
  /\ sending => on_air = hdr /\ ~update_work
  /\ Len(reports) = 1 =>
       /\ reports[1].sync.time < reports[1].pkt /\ reports[1].pkt < sent
       /\ hdr.time = reports[1].sync.time \/ hdr.time >= reports[1].pkt
       /\ last_adv_valid =>
            /\ \/ reports[1].sync.time = heard.time
               \/ reports[1].sync.time >= heard.pkt
            /\ reports[1].sync.time <= heard.time + SeqMod
  /\ last_adv_valid =>
       /\ heard.time < heard.pkt /\ heard.pkt < sent
       /\ hdr.time = heard.time \/ hdr.time >= heard.pkt
  /\ Paired

\* The only member of a sequence
LEMMA FirstOfOne == \A R : \A s \in Seq(R) : Len(s) = 1 => s[1] \in R
OBVIOUS

\* The end of a packet: what is sent from now on is not before it.
LEMMA EndKeepsOrder ==
  ASSUME InTime, StampInv, CaptureInv, OrderInv, packet_end
  PROVE  OrderInv'
<1>1. /\ hdr' \in Sync /\ sent' = sent + 1 /\ sending' = FALSE /\ update_work' \in BOOLEAN
      /\ hdr' = hdr \/ hdr'.time = sent
      /\ UNCHANGED <<air, on_air, last_adv_valid, heard, sample>>
  BY IsrStamps DEF packet_end, PacketIsr, timerVars
<1>2. /\ sent \in Nat /\ hdr.time \in Int /\ heard.time \in Int /\ heard.pkt \in Int
      /\ SeqMod \in Nat /\ reports \in Seq(Report)
  BY Constants DEF StampInv, TypeOK, Sync, Report
<1>3. sending /\ on_air = hdr /\ ~update_work /\ air = hdr
  BY DEF packet_end, OrderInv
<1>4. hdr'.time < sent' /\ hdr'.time \in Int
  BY <1>1, <1>2 DEF OrderInv
<1>5. ~update_work' => air' = hdr'
  BY <1>1, <1>3 DEF packet_end, PacketIsr
<1>6. last_adv_valid' => /\ heard'.time < heard'.pkt /\ heard'.pkt < sent'
                         /\ hdr'.time = heard'.time \/ hdr'.time >= heard'.pkt
  BY <1>1, <1>2 DEF OrderInv
<1>7. Paired'
  BY <1>1 DEF OrderInv, Paired
<1>8. Len(reports') = 1 =>
       /\ reports'[1].sync.time < reports'[1].pkt /\ reports'[1].pkt < sent'
       /\ hdr'.time = reports'[1].sync.time \/ hdr'.time >= reports'[1].pkt
       /\ last_adv_valid' =>
            /\ \/ reports'[1].sync.time = heard'.time
               \/ reports'[1].sync.time >= heard'.pkt
            /\ reports'[1].sync.time <= heard'.time + SeqMod
  <2>1. CASE reports' = reports
    <3> SUFFICES ASSUME Len(reports) = 1
                 PROVE  /\ reports[1].sync.time < reports[1].pkt /\ reports[1].pkt < sent'
                        /\ hdr'.time = reports[1].sync.time \/ hdr'.time >= reports[1].pkt
                        /\ last_adv_valid' =>
                             /\ \/ reports[1].sync.time = heard'.time
                                \/ reports[1].sync.time >= heard'.pkt
                             /\ reports[1].sync.time <= heard'.time + SeqMod
      BY <2>1
    <3>1. reports[1] \in Report
      BY <1>2, FirstOfOne
    <3>2. reports[1].pkt \in Int
      BY <3>1 DEF Report
    <3>3. QED
      BY <1>1, <1>2, <3>2 DEF OrderInv
  <2>2. CASE /\ reports' = <<[sync |-> on_air, pkt |-> sent]>>
             /\ on_air.time - heard.time <= SeqMod
    <3>1. PICK r : r = [sync |-> on_air, pkt |-> sent]
      OBVIOUS
    <3>2. r.sync = hdr /\ r.pkt = sent /\ reports' = <<r>>
      BY <1>3, <2>2, <3>1
    <3>3. reports'[1] = r
      BY <3>2
    <3>4. r.sync.time < r.pkt /\ r.pkt < sent'
          /\ (hdr'.time = r.sync.time \/ hdr'.time >= r.pkt)
      BY <1>1, <1>2, <3>2 DEF OrderInv
    <3>5. hdr.time <= heard.time + SeqMod
      BY <1>2, <1>3, <2>2
    <3>6. last_adv_valid' => (hdr.time = heard'.time \/ hdr.time >= heard'.pkt)
      BY <1>1 DEF OrderInv
    <3>7. QED
      BY <1>1, <3>2, <3>3, <3>4, <3>5, <3>6
  <2>3. QED
    BY <2>1, <2>2, EndReports DEF InTime, ThreadServed
<1>9. QED
  BY <1>1, <1>4, <1>5, <1>6, <1>7, <1>8 DEF OrderInv

\* A number that is the one expected is that of the packet handled last.
LEMMA RecvKeepsOrder ==
  ASSUME InTime, StampInv, CaptureInv, OrderInv, sync_timer_recv_adv
  PROVE  OrderInv'
<1>1. PICK r : r = reports[1]
  OBVIOUS
<1>2. /\ heard' = [pkt |-> r.pkt, time |-> r.sync.time]
      /\ last_adv_time' = capture /\ reports' = Tail(reports) /\ Len(reports) > 0
      /\ r \in Report /\ Reported(r)
      /\ sample' = IF last_adv_valid /\ r.sync.seq = last_adv_seq
                   THEN [local |-> last_adv_time, central |-> r.sync.time] ELSE NoSample
  BY <1>1, RecvKeepsStamps
<1>3. Len(reports) = 1
  <2>1. reports \in Seq(Report)
    BY DEF StampInv, TypeOK, Report
  <2>2. PICK n \in Nat : n = Len(reports)
    BY <2>1
  <2>3. n <= 1 /\ n > 0
    BY <1>2, <2>2 DEF CaptureInv
  <2>4. QED
    BY <2>2, <2>3
<1>4. Len(reports') = 0
  BY <1>2, <1>3 DEF StampInv, TypeOK
<1>5. /\ r.sync.time < r.pkt /\ r.pkt < sent
      /\ hdr.time = r.sync.time \/ hdr.time >= r.pkt
      /\ last_adv_valid => /\ r.sync.time = heard.time \/ r.sync.time >= heard.pkt
                           /\ r.sync.time <= heard.time + SeqMod
  BY <1>1, <1>3 DEF OrderInv
<1>6. UNCHANGED <<sent, sending, on_air, hdr, update_work, air>>
  BY DEF sync_timer_recv_adv, centralVars
<1>7. heard'.time = r.sync.time /\ heard'.pkt = r.pkt
  BY <1>2
<1>8. Paired'
  <2>1. CASE last_adv_valid /\ r.sync.seq = last_adv_seq
    <3>1. /\ r.sync.time \in Nat /\ r.sync.seq = r.sync.time % SeqMod
          /\ heard.time \in Nat /\ heard.pkt \in Int
          /\ last_adv_seq = (heard.time + 1) % SeqMod
      BY <1>2, <2>1 DEF Reported, Stamped, StampInv, TypeOK
    <3>2. heard.time < heard.pkt /\ (r.sync.time = heard.time \/ r.sync.time >= heard.pkt)
          /\ r.sync.time <= heard.time + SeqMod
      BY <1>5, <2>1 DEF OrderInv
    <3>3. PICK m \in Nat \ {0}, a \in Int, b \in Int :
            m = SeqMod /\ a = heard.time /\ b = r.sync.time
      BY <3>1, Constants
    <3>4. m > 1 /\ a <= b /\ b <= a + m /\ b % m = (a + 1) % m
      <4>1. m > 1
        BY <3>3 DEF InTime
      <4>2. a <= b /\ b <= a + m
        BY <3>1, <3>2, <3>3
      <4>3. b % m = (a + 1) % m
        BY <2>1, <3>1, <3>3, Zenon
      <4>4. QED
        BY <4>1, <4>2, <4>3
    <3>5. b = a + 1
      BY <3>4, NextIsKnown
    <3>6. r.sync.time = heard.pkt
      BY <3>1, <3>2, <3>3, <3>5
    <3>7. last_adv_time = heard.pkt
      BY <2>1 DEF CaptureInv, LastAdvTime
    <3>8. sample' = [local |-> last_adv_time, central |-> r.sync.time]
      BY <1>2, <2>1
    <3>9. QED
      BY <3>6, <3>7, <3>8 DEF Paired
  <2>2. CASE ~(last_adv_valid /\ r.sync.seq = last_adv_seq)
    BY <1>2, <2>2 DEF Paired, NoSample
  <2>3. QED
    BY <2>1, <2>2
<1>9. QED
  BY <1>4, <1>5, <1>6, <1>7, <1>8 DEF OrderInv

\* Every step keeps the order.
LEMMA OrderStep ==
  ASSUME InTime, StampInv, CaptureInv, OrderInv, [Next]_vars
  PROVE  OrderInv'
<1>1. CASE packet_begin
  <2>1. ~update_work
    BY <1>1 DEF packet_begin, InTime
  <2>2. QED
    BY <1>1, <2>1 DEF packet_begin, timerVars, OrderInv, Paired
<1>2. CASE packet_end
  BY <1>2, EndKeepsOrder
<1>3. CASE sync_adv_update_handler
  BY <1>3 DEF sync_adv_update_handler, Payload, timerVars, OrderInv, Paired
<1>4. CASE sync_started \/ UNCHANGED vars
  BY <1>4 DEF sync_started, vars, timerVars, centralVars, OrderInv, Paired
<1>5. CASE sync_terminated
  <2>1. reports' = <<>> /\ UNCHANGED <<centralVars, timerVars>>
    BY <1>5 DEF sync_terminated
  <2>2. Len(reports') = 0
    BY <2>1
  <2>3. QED
    BY <2>1, <2>2 DEF timerVars, centralVars, OrderInv, Paired
<1>6. CASE sync_timer_recv_adv
  BY <1>6, RecvKeepsOrder
<1>7. QED
  BY <1>1, <1>2, <1>3, <1>4, <1>5, <1>6 DEF Next

\* Nothing was sent, and nothing heard.
LEMMA OrderInit == Init => OrderInv
<1> SUFFICES ASSUME Init PROVE OrderInv
  OBVIOUS
<1>1. hdr = None /\ air = None /\ sent = 0 /\ ~update_work /\ ~sending
      /\ ~last_adv_valid /\ sample = NoSample /\ Len(reports) = 0
  BY DEF Init
<1>2. QED
  BY <1>1, Constants DEF OrderInv, Paired, NoSample

\* Every pair of times that the clock estimate learns from belongs to one packet,
\* whatever is lost, corrupted or terminated in between and whichever messages of
\* the packet interrupt are not sent, as long as everyone is in time
\* (sync_timer.c:135-147).
THEOREM PairsBelongTogether == InTime => (Spec => []Paired)
<1> SUFFICES ASSUME InTime PROVE Spec => []Paired
  OBVIOUS
<1>1. StampInv /\ CaptureInv /\ [Next]_vars => CaptureInv'
  BY CaptureStep DEF InTime, ThreadServed
<1>2. StampInv /\ CaptureInv /\ OrderInv /\ [Next]_vars => OrderInv'
  BY OrderStep
<1>3. OrderInv => Paired
  BY DEF OrderInv
<1>4. QED
  BY <1>1, <1>2, <1>3, StampInit, StampStep, CaptureInit, OrderInit, PTL DEF Spec

=============================================================================
