-------------------------- MODULE HandshakeProofs --------------------------
(***************************************************************************)
(* Proofs about Handshake, for any number of retries, any modulus and any  *)
(* device.  HelloInv couples the SYNs or SYN+ACKs of a loop with the       *)
(* iterations it has left; SynInv says what a number of the client and an  *)
(* ACK in the network tell of how far the client has come.                 *)
(***************************************************************************)
EXTENDS Handshake, TLAPS

States == {"closed", "Idle", "SynSent", "SynReceived", "Established"}

HandshakeTypeOK ==
    /\ net \subseteq Packet
    /\ state \in [End -> States]
    /\ left \in [End -> 0 .. RETRIES]
    /\ hellos \in [End -> 0 .. RETRIES]
    /\ seq \in [End -> Number]
    /\ ack \in [End -> Number]
    /\ last_ack \in [End -> Number]

\* Two iterations go by for each SYN or SYN+ACK: the one that sent it and the one
\* that waited for an answer.
HelloInv ==
    \A e \in End :
        /\ 2 * hellos[e] <= RETRIES + 1
        /\ state[e] = "Idle" => 2 * hellos[e] + left[e] <= RETRIES
        /\ state[e] = Waiting(e) => 2 * hellos[e] + left[e] <= RETRIES + 1

\* An ACK with which a server that has sent nothing yet would be content.
FinalAck(p) == p.from = "client" /\ p.flags = "ACK" /\ p.ack = 1

SynInv ==
    /\ state["client"] \in {"Idle", "SynSent"} => seq["client"] = 0
    /\ state["server"] \in {"Idle", "SynReceived"} => seq["server"] = 0
    /\ state["client"] = "Established" => seq["client"] >= 1
    /\ state["server"] = "Established" => seq["client"] >= 1
    /\ (\E p \in net : FinalAck(p)) => seq["client"] >= 1

\* The last ACK of an earlier handshake of the same tuple does not turn up in
\* this one.
NoStaleAck == \A p \in Leftover : ~FinalAck(p)

-----------------------------------------------------------------------------
\* Numbers that wrap around.

LEMMA Wraps ==
    ASSUME NEW n \in Int
    PROVE  n % MODULUS \in Number
BY HandshakeAssumption DEF HandshakeAssumption, Number

LEMMA Small ==
    ASSUME NEW n \in Nat, n <= MAX_SEQ
    PROVE  n % MODULUS = n
BY HandshakeAssumption DEF HandshakeAssumption

LEMMA OneIsOne ==
    1 % MODULUS = 1 /\ 0 \in Number /\ 1 \in Number
<1>1. 1 <= MAX_SEQ
  BY HandshakeAssumption DEF HandshakeAssumption
<1> QED BY <1>1, Small, HandshakeAssumption DEF HandshakeAssumption, Number

LEMMA SegmentIsPacket ==
    ASSUME NEW e \in End, NEW f \in Flags, NEW s \in Number, NEW a \in Number, NEW n \in 0 .. 1
    PROVE  Segment(e, f, s, a, n) \in Packet
BY DEF Segment, Packet

-----------------------------------------------------------------------------
\* Type correctness.

LEMMA HandshakeTypeInit == Init => HandshakeTypeOK
BY HandshakeAssumption, OneIsOne DEF HandshakeAssumption, Init, HandshakeTypeOK, End, States

LEMMA ClosesTyped ==
    ASSUME HandshakeTypeOK, NEW e \in End, Close(e)
    PROVE  net' \subseteq Packet /\ state' \in [End -> States]
<1>1. Rst(e) \in Packet
  BY OneIsOne, SegmentIsPacket DEF Rst, Flags
<1> QED BY <1>1 DEF Close, Dropped, Sent, HandshakeTypeOK, States

LEMMA LoopTyped ==
    ASSUME HandshakeTypeOK, NEW e \in End, Loop(e)
    PROVE  HandshakeTypeOK'
<1>1. CASE SendHello(e)
  <2>1. Segment(e, Hello(e), seq[e], ack[e], 0) \in Packet
    BY SegmentIsPacket DEF Hello, Flags, HandshakeTypeOK
  <2>2. Waiting(e) \in States
    BY DEF Waiting, States
  <2>3. net' \subseteq Packet /\ state' \in [End -> States]
    BY <1>1, <2>1, <2>2, ClosesTyped DEF SendHello, HandshakeTypeOK
  <2>4. left' \in [End -> 0 .. RETRIES] /\ hellos' \in [End -> 0 .. RETRIES]
    BY <1>1, HandshakeAssumption DEF SendHello, Spent, HandshakeTypeOK, HandshakeAssumption
  <2> QED BY <1>1, <2>3, <2>4, Zenon DEF SendHello, HandshakeTypeOK
<1>2. CASE Timeout(e)
  BY <1>2, HandshakeAssumption DEF Timeout, Spent, HandshakeTypeOK, HandshakeAssumption, States
<1>3. CASE GiveUp(e)
  BY <1>3, ClosesTyped DEF GiveUp, HandshakeTypeOK
<1>4. ASSUME NEW p \in Inbound(e), Answer(e, p)
      PROVE  HandshakeTypeOK'
  <2>1. p \in Packet
    BY <1>4 DEF Inbound, HandshakeTypeOK
  <2>2. left' \in [End -> 0 .. RETRIES] /\ hellos' \in [End -> 0 .. RETRIES]
    BY <1>4, HandshakeAssumption DEF Answer, Spent, HandshakeTypeOK, HandshakeAssumption
  <2>3. CASE Close(e) /\ UNCHANGED <<seq, ack, last_ack>>
    BY <2>2, <2>3, ClosesTyped DEF HandshakeTypeOK
  <2>4. CASE e = "client" /\ ClientAnswers(p)
    <3> DEFINE a == (p.seq + 1) % MODULUS
               s == (seq["client"] + 1) % MODULUS
    <3>1. a \in Number /\ s \in Number
      BY <2>1, Wraps DEF Packet, Number, HandshakeTypeOK, End
    <3>2. Segment("client", "ACK", s, a, 0) \in Packet
      BY <3>1, SegmentIsPacket DEF End, Flags
    <3>3. /\ seq' = [seq EXCEPT !["client"] = s]
          /\ ack' = [ack EXCEPT !["client"] = a]
          /\ last_ack' = [last_ack EXCEPT !["client"] = a]
          /\ \/ /\ net' = net \cup {Segment("client", "ACK", s, a, 0)}
                /\ state' = [state EXCEPT !["client"] = "Established"]
             \/ Close("client")
      BY <2>4 DEF ClientAnswers
    <3> HIDE DEF a, s
    <3>4. net' \subseteq Packet /\ state' \in [End -> States]
      BY <2>4, <3>2, <3>3, ClosesTyped DEF HandshakeTypeOK, States
    <3> QED BY <2>2, <3>1, <3>3, <3>4, Zenon DEF HandshakeTypeOK
  <2>5. CASE ServerAccepts
    <3>1. (seq["server"] + 1) % MODULUS \in Number
      BY Wraps DEF Number, HandshakeTypeOK, End
    <3> QED BY <2>2, <2>5, <3>1, Zenon DEF ServerAccepts, HandshakeTypeOK, States
  <2>6. CASE UNCHANGED <<net, state, seq, ack, last_ack>>
    BY <2>2, <2>6 DEF HandshakeTypeOK
  <2> QED BY <1>4, <2>3, <2>4, <2>5, <2>6 DEF Answer
<1> QED BY <1>1, <1>2, <1>3, <1>4 DEF Loop

LEMMA HandshakeTypeNext == HandshakeTypeOK /\ [Next]_vars => HandshakeTypeOK'
<1> SUFFICES ASSUME HandshakeTypeOK, [Next]_vars PROVE HandshakeTypeOK'
  OBVIOUS
<1>1. ASSUME NEW p \in Inbound("server"), PassiveOpen(p)
      PROVE  HandshakeTypeOK'
  <2>1. RETRIES \in 0 .. RETRIES /\ 0 \in 0 .. RETRIES /\ "Idle" \in States
    BY HandshakeAssumption DEF HandshakeAssumption, States
  <2>2. left' \in [End -> 0 .. RETRIES] /\ hellos' \in [End -> 0 .. RETRIES] /\ state' \in [End -> States]
    BY <1>1, <2>1, Zenon DEF PassiveOpen, HandshakeTypeOK
  <2> QED BY <1>1, <2>2, OneIsOne DEF PassiveOpen, HandshakeTypeOK
<1>2. ASSUME NEW e \in End, Send(e)
      PROVE  HandshakeTypeOK'
  <2>1. Segment(e, "ACK", seq[e], ack[e], 1) \in Packet
    BY SegmentIsPacket DEF Flags, HandshakeTypeOK
  <2>2. (seq[e] + 1) % MODULUS \in Number
    BY Wraps DEF Number, HandshakeTypeOK
  <2>3. net' \subseteq Packet
    BY <1>2, <2>1 DEF Send, Sent, HandshakeTypeOK
  <2> QED BY <1>2, <2>2, <2>3 DEF Send, HandshakeTypeOK
<1>3. ASSUME NEW e \in End, RecvRst(e) \/ Drop(e)
      PROVE  HandshakeTypeOK'
  BY <1>3, ClosesTyped DEF RecvRst, Drop, HandshakeTypeOK
<1>4. ASSUME NEW e \in End, NEW p \in Inbound(e), Recv(e, p)
      PROVE  HandshakeTypeOK'
  <2> DEFINE a == (p.seq + p.len) % MODULUS
  <2>1. p \in Packet
    BY <1>4 DEF Inbound, HandshakeTypeOK
  <2>2. a \in Number
    BY <2>1, Wraps DEF Packet, Number
  <2>3. Segment(e, "ACK", seq[e], a, 0) \in Packet
    BY <2>2, SegmentIsPacket DEF Flags, HandshakeTypeOK
  <2>4. /\ ack' = [ack EXCEPT ![e] = a]
        /\ \/ /\ last_ack' = [last_ack EXCEPT ![e] = a]
              /\ net' \in Sent(Segment(e, "ACK", seq[e], a, 0))
           \/ UNCHANGED <<net, last_ack>>
        /\ UNCHANGED <<state, left, seq, hellos>>
    BY <1>4 DEF Recv
  <2> HIDE DEF a
  <2>5. net' \subseteq Packet
    BY <2>3, <2>4 DEF Sent, HandshakeTypeOK
  <2> QED BY <2>2, <2>4, <2>5 DEF HandshakeTypeOK
<1>5. ASSUME NEW e \in End, NEW p \in Inbound(e), Refuse(e, p)
      PROVE  HandshakeTypeOK'
  <2>1. Rst(e) \in Packet
    BY OneIsOne, SegmentIsPacket DEF Rst, Flags
  <2> QED BY <1>5, <2>1 DEF Refuse, HandshakeTypeOK
<1>6. CASE UNCHANGED vars
  BY <1>6 DEF vars, HandshakeTypeOK
<1> QED BY <1>1, <1>2, <1>3, <1>4, <1>5, <1>6, LoopTyped DEF Next

\* Sequence and acknowledgement numbers never leave the range of a u32, no loop
\* runs more than RETRIES iterations, and what is in the network is well formed.
THEOREM HandshakeTypeCorrect == Spec => []HandshakeTypeOK
BY HandshakeTypeInit, HandshakeTypeNext, PTL DEF Spec

-----------------------------------------------------------------------------
\* The loops of connect and accept.

LEMMA HelloNext ==
    ASSUME HandshakeTypeOK, HelloInv, [Next]_vars
    PROVE  HelloInv'
<1> USE HandshakeAssumption DEF HandshakeAssumption
<1> DEFINE Budget(e) == /\ 2 * hellos[e] <= RETRIES + 1
                        /\ state[e] = "Idle" => 2 * hellos[e] + left[e] <= RETRIES
                        /\ state[e] = Waiting(e) => 2 * hellos[e] + left[e] <= RETRIES + 1
<1>1. ASSUME NEW d \in End, state'[d] \in {state[d], "closed", "Established"},
             left'[d] = left[d] \/ left'[d] = left[d] - 1, hellos'[d] = hellos[d]
      PROVE  Budget(d)'
  BY <1>1 DEF HelloInv, HandshakeTypeOK, Waiting
<1>2. ASSUME NEW e \in End, state' = [state EXCEPT ![e] = state'[e]],
             state'[e] \in {state[e], "closed", "Established"},
             left' = left \/ left' = Spent(e), hellos' = hellos
      PROVE  HelloInv'
  <2>1. ASSUME NEW d \in End PROVE Budget(d)'
    BY <1>1, <1>2 DEF HandshakeTypeOK, Spent
  <2> QED BY <2>1 DEF HelloInv
<1>3. ASSUME NEW e \in End, SendHello(e) PROVE HelloInv'
  <2>1. CASE Close(e) /\ UNCHANGED hellos
    BY <1>2, <1>3, <2>1, Zenon DEF SendHello, Close, HandshakeTypeOK
  <2>2. CASE /\ state' = [state EXCEPT ![e] = Waiting(e)]
             /\ hellos' = [hellos EXCEPT ![e] = IF @ < RETRIES THEN @ + 1 ELSE @]
    <3>1. ASSUME NEW d \in End, d # e PROVE Budget(d)'
      BY <1>1, <1>3, <2>2, <3>1 DEF SendHello, HandshakeTypeOK, Spent
    <3>2. state'[e] = Waiting(e) /\ Waiting(e) # "Idle"
      BY <2>2 DEF HandshakeTypeOK, Waiting
    <3>3. left'[e] = left[e] - 1 /\ left[e] > 0 /\ hellos'[e] <= hellos[e] + 1
      BY <1>3, <2>2 DEF SendHello, HandshakeTypeOK, Spent
    <3>4. hellos'[e] \in Nat /\ left[e] \in Nat /\ hellos[e] \in Nat
      BY <2>2 DEF HandshakeTypeOK
    <3>5. 2 * hellos[e] + left[e] <= RETRIES
      BY <1>3 DEF SendHello, HelloInv
    <3>6. 2 * hellos'[e] + left'[e] <= RETRIES + 1 /\ 2 * hellos'[e] <= RETRIES + 1
      BY <3>3, <3>4, <3>5
    <3>7. Budget(e)'
      BY <3>2, <3>6 DEF Waiting
    <3> QED BY <3>1, <3>7 DEF HelloInv
  <2> QED BY <1>3, <2>1, <2>2 DEF SendHello
<1>4. ASSUME NEW e \in End, Timeout(e) PROVE HelloInv'
  <2>1. ASSUME NEW d \in End, d # e PROVE Budget(d)'
    BY <1>1, <1>4, <2>1 DEF Timeout, HandshakeTypeOK, Spent
  <2>2. Budget(e)'
    BY <1>4 DEF Timeout, HelloInv, HandshakeTypeOK, Spent, Waiting
  <2> QED BY <2>1, <2>2 DEF HelloInv
<1>5. ASSUME NEW p \in Inbound("server"), PassiveOpen(p) PROVE HelloInv'
  BY <1>5 DEF PassiveOpen, HelloInv, HandshakeTypeOK, Waiting, End
<1>6. ASSUME NEW e \in End, NEW p \in Inbound(e), Answer(e, p) PROVE HelloInv'
  <2>1. left' = Spent(e) /\ hellos' = hellos
    BY <1>6 DEF Answer
  <2>2. state' = state \/ state' = [state EXCEPT ![e] = "closed"] \/ state' = [state EXCEPT ![e] = "Established"]
    BY <1>6 DEF Answer, Close, ClientAnswers, ServerAccepts
  <2> QED BY <1>2, <2>1, <2>2 DEF HandshakeTypeOK
<1>7. ASSUME NEW e \in End, GiveUp(e) \/ RecvRst(e) \/ Drop(e) PROVE HelloInv'
  BY <1>2, <1>7 DEF GiveUp, RecvRst, Drop, Close, HandshakeTypeOK
<1>8. CASE UNCHANGED <<state, left, hellos>>
  BY <1>8 DEF HelloInv, Waiting
<1>9. \A e \in End : Send(e) \/ (\E p \in Inbound(e) : Recv(e, p) \/ Refuse(e, p)) => UNCHANGED <<state, left, hellos>>
  BY DEF Send, Recv, Refuse
<1>10. UNCHANGED vars => UNCHANGED <<state, left, hellos>>
  BY DEF vars
<1> QED BY <1>3, <1>4, <1>5, <1>6, <1>7, <1>8, <1>9, <1>10 DEF Next, Loop

\* A loop of connect or accept sends its SYN or SYN+ACK at most every other
\* iteration, whatever arrives meanwhile.
THEOREM HelloBudgetHolds == Spec => []HelloBudget
<1>1. Init => HelloInv
  BY HandshakeAssumption DEF HandshakeAssumption, Init, HelloInv, Waiting, End
<1>2. HandshakeTypeOK /\ HelloInv /\ [Next]_vars => HelloInv'
  BY HelloNext
<1>3. HelloInv => HelloBudget
  BY DEF HelloInv, HelloBudget
<1> QED BY <1>1, <1>2, <1>3, HandshakeTypeCorrect, PTL DEF Spec

-----------------------------------------------------------------------------
\* The numbers of the client.

LEMMA SynInit ==
    ASSUME NoStaleAck, Init
    PROVE  SynInv
BY DEF NoStaleAck, Init, SynInv, End

LEMMA SynNext ==
    ASSUME HandshakeTypeOK, SynInv, [Next]_vars
    PROVE  SynInv'
<1> DEFINE Acks(S) == {p \in S : FinalAck(p)}
<1>1. \A e \in End : ~FinalAck(Rst(e)) /\ \A s, a, n : ~FinalAck(Segment(e, Hello(e), s, a, n))
  BY DEF FinalAck, Rst, Segment, Hello
<1>2. \A s, a, n : ~FinalAck(Segment("server", "ACK", s, a, n))
  BY DEF FinalAck, Segment
<1>3. ASSUME NEW e \in End, Close(e), seq' = seq \/ (e = "client" /\ seq'["client"] >= 1 /\ seq'["server"] = seq["server"])
      PROVE  SynInv'
  <2>1. state' = [state EXCEPT ![e] = "closed"] /\ (net' = net \/ net' = net \cup {Rst(e)})
    BY <1>3 DEF Close, Dropped, Sent
  <2>2. Acks(net') = Acks(net)
    BY <1>1, <2>1
  <2> QED BY <1>3, <2>1, <2>2 DEF SynInv, HandshakeTypeOK, End
<1>4. ASSUME NEW e \in End, SendHello(e) PROVE SynInv'
  <2>1. CASE Close(e)
    BY <1>3, <1>4, <2>1 DEF SendHello
  <2>2. CASE /\ net' = net \cup {Segment(e, Hello(e), seq[e], ack[e], 0)}
             /\ state' = [state EXCEPT ![e] = Waiting(e)]
    <3>1. Acks(net') = Acks(net)
      BY <1>1, <2>2
    <3> QED BY <1>4, <2>2, <3>1 DEF SendHello, SynInv, HandshakeTypeOK, End, Waiting
  <2> QED BY <1>4, <2>1, <2>2 DEF SendHello
<1>5. ASSUME NEW e \in End, Timeout(e) PROVE SynInv'
  BY <1>5 DEF Timeout, SynInv, HandshakeTypeOK, End, Waiting
<1>6. ASSUME NEW p \in Inbound("server"), PassiveOpen(p) PROVE SynInv'
  BY <1>6 DEF PassiveOpen, SynInv, HandshakeTypeOK, End
<1>7. ASSUME NEW e \in End, NEW p \in Inbound(e), Answer(e, p) PROVE SynInv'
  <2>1. seq[e] = 0
    BY <1>7 DEF Answer, Waiting, SynInv, End
  <2>2. CASE Close(e) /\ UNCHANGED <<seq, ack, last_ack>>
    BY <1>3, <2>2
  <2>3. CASE e = "client" /\ ClientAnswers(p)
    <3> DEFINE a == (p.seq + 1) % MODULUS
    <3>0. (seq["client"] + 1) % MODULUS = 1
      <4>1. seq["client"] + 1 = 1
        BY <2>1, <2>3
      <4> QED BY <4>1, OneIsOne
    <3>1. /\ seq' = [seq EXCEPT !["client"] = 1]
          /\ \/ /\ net' = net \cup {Segment("client", "ACK", 1, a, 0)}
                /\ state' = [state EXCEPT !["client"] = "Established"]
             \/ Close("client")
      BY <2>3, <3>0, Zenon DEF ClientAnswers
    <3> HIDE DEF a
    <3>2. seq'["client"] = 1 /\ seq'["server"] = seq["server"]
      BY <3>1 DEF HandshakeTypeOK, End
    <3>3. CASE Close("client")
      BY <1>3, <2>3, <3>2, <3>3
    <3>4. CASE state' = [state EXCEPT !["client"] = "Established"]
      BY <3>2, <3>4 DEF SynInv, HandshakeTypeOK, End
    <3> QED BY <3>1, <3>3, <3>4
  <2>4. CASE e = "server" /\ Expected(e, p) /\ ServerAccepts
    <3>1. p \in net /\ p.from = "client"
      BY <1>7, <2>4 DEF Inbound, HandshakeTypeOK, Packet, End
    <3>2. FinalAck(p)
      BY <2>1, <2>4, <3>1, OneIsOne DEF Expected, FinalAck
    <3>3. seq["client"] >= 1
      BY <3>1, <3>2 DEF SynInv
    <3> QED BY <2>4, <3>3 DEF ServerAccepts, SynInv, HandshakeTypeOK, End
  <2>5. CASE UNCHANGED <<net, state, seq, ack, last_ack>>
    BY <2>5 DEF SynInv
  <2> QED BY <1>7, <2>2, <2>3, <2>4, <2>5 DEF Answer
<1>8. ASSUME NEW e \in End, GiveUp(e) \/ RecvRst(e) \/ Drop(e) PROVE SynInv'
  BY <1>3, <1>8 DEF GiveUp, RecvRst, Drop
<1>9. ASSUME NEW e \in End, Send(e) PROVE SynInv'
  <2>1. seq'[e] = seq[e] + 1 /\ \A d \in End \ {e} : seq'[d] = seq[d]
    <3>1. seq[e] + 1 <= MAX_SEQ /\ seq[e] + 1 \in Nat
      BY <1>9, HandshakeAssumption DEF Send, HandshakeTypeOK, Number, HandshakeAssumption
    <3> QED BY <1>9, <3>1, Small DEF Send, HandshakeTypeOK
  <2>2. \A d \in End : seq'[d] >= seq[d]
    BY <2>1 DEF HandshakeTypeOK, Number
  <2>3. state[e] = "Established" /\ UNCHANGED state
    BY <1>9 DEF Send
  <2>4. CASE e = "client"
    BY <2>1, <2>2, <2>3, <2>4 DEF SynInv, HandshakeTypeOK, Number, End
  <2>5. CASE e = "server"
    <3>1. Acks(net') = Acks(net)
      BY <1>2, <1>9, <2>5 DEF Send, Sent
    <3> QED BY <2>1, <2>3, <2>5, <3>1 DEF SynInv, End
  <2> QED BY <2>4, <2>5 DEF End
<1>10. ASSUME NEW e \in End, NEW p \in Inbound(e), Recv(e, p) PROVE SynInv'
  <2>1. state[e] = "Established" /\ UNCHANGED <<state, seq>>
    BY <1>10 DEF Recv
  <2>2. CASE e = "client"
    BY <2>1, <2>2 DEF SynInv
  <2>3. CASE e = "server"
    <3>1. Acks(net') = Acks(net)
      BY <1>2, <1>10, <2>3 DEF Recv, Sent
    <3> QED BY <2>1, <3>1 DEF SynInv
  <2> QED BY <2>2, <2>3 DEF End
<1>11. ASSUME NEW e \in End, NEW p \in Inbound(e), Refuse(e, p) PROVE SynInv'
  <2>1. Acks(net') = Acks(net)
    BY <1>1, <1>11 DEF Refuse
  <2> QED BY <1>11, <2>1 DEF Refuse, SynInv
<1>12. CASE UNCHANGED vars
  BY <1>12 DEF vars, SynInv
<1> QED BY <1>4, <1>5, <1>6, <1>7, <1>8, <1>9, <1>10, <1>11, <1>12 DEF Next, Loop

\* Whatever the network loses, repeats or reorders, accept completes only after
\* connect has: provided that no last ACK of an earlier handshake of the same
\* tuple is still on its way.
THEOREM AgreementHolds ==
    ASSUME NoStaleAck
    PROVE  Spec => []Agreement
<1>1. Init => SynInv
  BY SynInit
<1>2. HandshakeTypeOK /\ SynInv /\ [Next]_vars => SynInv'
  BY SynNext
<1>3. SynInv => Agreement
  BY DEF SynInv, Agreement
<1> QED BY <1>1, <1>2, <1>3, HandshakeTypeCorrect, PTL DEF Spec

=============================================================================
