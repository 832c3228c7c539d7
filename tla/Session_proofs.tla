--------------------------- MODULE Session_proofs ---------------------------
(***************************************************************************)
(* The safety of Session, for any number of messages: nothing an honest    *)
(* peer sends is refused, nonces and keys stay in step, and the hub is the *)
(* last to set its session keys.                                           *)
(*                                                                         *)
(* IInv says, for each stage of the two programs, what can be on the way.  *)
(* While the connection holds, the nonce a side will send under next is    *)
(* the one its peer will have after reading all that is on the way; once   *)
(* the connection is cut nothing is added, and what is left is a prefix.   *)
(***************************************************************************)
EXTENDS Session, SequenceTheorems, TLAPS

N(of, n) == [of |-> of, n |-> n]

Messages == [key : Keys, nonce : Nonces, kind : Kinds, carries : Seq(Nonces)]

StartMsg == Message("clear", N("unset", 0), "start", <<N("first", 0)>>)
InitMsg  == Message("shared", N("first", 0), "init", <<N("proxy", 0)>>)
RecvMsg  == Message("shared", N("proxy", 0), "recv", <<N("proxy", 0), N("hub", 0)>>)
FinalMsg == Message("shared", N("hub", 0), "final", <<N("hub", 0)>>)

\* Nothing but m is on its way to s.
AtMost(s, m) == Len(chan[s]) <= 1 /\ (chan[s] # << >> => chan[s][1] = m)

\* What s will send under next is what its peer will read under next.
Follows(s) == them[s] = Plus(me[Other(s)], Len(chan[Other(s)]))

Typed == TypeOK /\ chan \in [Sides -> Seq(Messages)]

\* A side leaves the handshake without keys, or altogether, only when the
\* connection is gone.
Gone ==
  \A s \in Sides :
    /\ pc[s] = "closed" => cut # "no"
    /\ pc[s] = "open" /\ ~skey[s] => cut # "no" /\ chan[s] = << >>
    /\ skey[s] => pc[s] \in {"verify", "open", "closed"}

HubStages ==
  /\ pc["hub"] \in {"start", "wait_init", "wait_final", "open", "closed"}
  /\ pc["hub"] = "start" =>
       chan["hub"] = << >> /\ chan["proxy"] = << >> /\ pc["proxy"] \in {"wait_first", "closed"}
  /\ pc["hub"] = "wait_init" =>
       /\ me["hub"] = N("first", 0)
       /\ AtMost("hub", InitMsg)
       /\ pc["proxy"] # "wait_first" => chan["proxy"] = << >>
  /\ pc["hub"] \in {"start", "wait_init"} => ~skey["proxy"]
  /\ pc["hub"] = "wait_final" =>
       /\ me["hub"] = N("hub", 0)
       /\ them["hub"].of = "proxy"
       /\ chan["hub"] # << >> => skey["proxy"] /\ chan["hub"][1] = FinalMsg
       /\ cut = "no" /\ skey["proxy"] => chan["hub"] # << >>
       /\ cut = "no" /\ ~skey["proxy"] => them["hub"] = N("proxy", 1)
  /\ skey["hub"] =>
       skey["proxy"] /\ me["hub"].of = "hub" /\ them["hub"].of = "proxy"

ProxyStages ==
  /\ pc["proxy"] \in {"wait_first", "wait_recv", "verify", "open", "closed"}
  /\ pc["proxy"] = "wait_first" =>
       /\ AtMost("proxy", StartMsg)
       /\ chan["hub"] = << >>
       /\ pc["hub"] \in {"start", "wait_init", "closed"}
  /\ pc["proxy"] = "wait_recv" =>
       me["proxy"] = N("proxy", 0) /\ AtMost("proxy", RecvMsg)
  /\ pc["proxy"] = "verify" => skey["proxy"]
  /\ skey["proxy"] => me["proxy"].of = "proxy" /\ them["proxy"].of = "hub"

Counting == cut = "no" /\ skey["proxy"] => Follows("hub") /\ Follows("proxy")

IInv == Typed /\ Gone /\ HubStages /\ ProxyStages /\ Counting /\ InStep

-----------------------------------------------------------------------------
\* The two programs.
LEMMA SidesAre == /\ Sides = {"hub", "proxy"}
                  /\ Other("hub") = "proxy" /\ Other("proxy") = "hub"
BY Zenon DEF Sides, Other

\* Nonces are an origin and a count; CryptState_nonce_inc adds one.
LEMMA NonceFacts ==
  ASSUME NEW of \in {"unset", "first", "hub", "proxy"}, NEW n \in Nat
  PROVE  /\ N(of, n) \in Nonces
         /\ N(of, n).of = of
         /\ CryptState_nonce_inc(N(of, n)) = N(of, n + 1)
         /\ CryptState_create_nonce(of) = N(of, 0)
         /\ \A k \in Nat : Plus(N(of, n), k) = N(of, n + k)
BY DEF N, Nonces, CryptState_nonce_inc, CryptState_create_nonce, Plus

\* The nonce k messages later.
LEMMA PlusFacts ==
  ASSUME NEW x \in Nonces, NEW k \in Nat
  PROVE  /\ Plus(x, k) \in Nonces /\ Plus(x, k).of = x.of
         /\ Plus(x, 0) = x
         /\ CryptState_nonce_inc(x) \in Nonces /\ CryptState_nonce_inc(x).of = x.of
         /\ CryptState_nonce_inc(Plus(x, k)) = Plus(x, k + 1)
         /\ Plus(CryptState_nonce_inc(x), k) = Plus(x, k + 1)
<1>1. PICK of \in {"unset", "first", "hub", "proxy"}, n \in Nat : x = N(of, n)
  BY Zenon DEF Nonces, N
<1>2. \A i \in Nat : Plus(x, i) = N(of, n + i)
  BY <1>1 DEF Plus, N
<1>3. CryptState_nonce_inc(x) = N(of, n + 1)
  BY <1>1 DEF N, CryptState_nonce_inc
<1>4. CryptState_nonce_inc(N(of, n + k)) = N(of, n + k + 1)
  BY DEF N, Nonces, Plus, CryptState_nonce_inc
<1>5. Plus(N(of, n + 1), k) = N(of, n + 1 + k)
  BY DEF N, Nonces, Plus, CryptState_nonce_inc
<1>6. N(of, n + k) \in Nonces /\ N(of, n + 1) \in Nonces
      /\ N(of, n).of = of /\ N(of, n + k).of = of /\ N(of, n + 1).of = of
  BY DEF N, Nonces, Plus, CryptState_nonce_inc
<1>7. n + 0 = n /\ n + 1 + k = n + (k + 1) /\ n + k + 1 = n + (k + 1)
  OBVIOUS
<1> QED
  BY <1>1, <1>2, <1>3, <1>4, <1>5, <1>6, <1>7

\* What CryptState_encrypt_node puts into a message.
LEMMA MessageFacts ==
  ASSUME NEW key \in Keys, NEW nonce \in Nonces, NEW kind \in Kinds, NEW c \in Seq(Nonces)
  PROVE  /\ Message(key, nonce, kind, c) \in Messages
         /\ Message(key, nonce, kind, c).key = key
         /\ Message(key, nonce, kind, c).nonce = nonce
         /\ Message(key, nonce, kind, c).carries = c
BY Zenon DEF Message, Messages

\* What reading the first message leaves.
LEMMA TailFacts ==
  ASSUME NEW c \in Seq(Messages), c # << >>
  PROVE  /\ Tail(c) \in Seq(Messages) /\ Head(c) = c[1] /\ 1 \in DOMAIN c
         /\ Len(c) \in Nat \ {0} /\ Len(Tail(c)) = Len(c) - 1
         /\ \A k \in DOMAIN Tail(c) : k \in Nat \ {0} /\ k + 1 \in DOMAIN c
                                      /\ Tail(c)[k] = c[k + 1]
BY HeadTailProperties, LenProperties, Z3

\* What writing one more message leaves.
LEMMA AppendFacts ==
  ASSUME NEW c \in Seq(Messages), NEW m \in Messages
  PROVE  /\ Append(c, m) \in Seq(Messages) /\ Append(c, m) # << >>
         /\ Len(Append(c, m)) = Len(c) + 1 /\ Len(c) \in Nat
         /\ \A k \in DOMAIN Append(c, m) :
              \/ k \in DOMAIN c /\ Append(c, m)[k] = c[k]
              \/ k = Len(c) + 1 /\ Append(c, m)[k] = m
         /\ c # << >> => 1 \in DOMAIN c /\ Append(c, m)[1] = c[1]
         /\ c = << >> => Append(c, m)[1] = m
BY AppendProperties, LenProperties

\* What is left of a channel whose tail is lost with the connection.
LEMMA PrefixFacts ==
  ASSUME NEW c \in Seq(Messages), NEW n \in 0 .. Len(c)
  PROVE  /\ SubSeq(c, 1, n) \in Seq(Messages) /\ Len(SubSeq(c, 1, n)) = n
         /\ \A k \in DOMAIN SubSeq(c, 1, n) : k \in DOMAIN c /\ SubSeq(c, 1, n)[k] = c[k]
         /\ SubSeq(c, 1, n) # << >> => c # << >> /\ 1 \in DOMAIN c /\ SubSeq(c, 1, n)[1] = c[1]
<1>1. Len(c) \in Nat /\ c \in [1 .. Len(c) -> Messages]
  BY LenProperties, Zenon
<1>2. /\ SubSeq(c, 1, n) \in Seq(Messages) /\ Len(SubSeq(c, 1, n)) = n
      /\ \A i \in 1 .. n : SubSeq(c, 1, n)[i] = c[i]
  BY <1>1, SubSeqProperties
<1>3. DOMAIN SubSeq(c, 1, n) = 1 .. n
  BY <1>2, LenProperties, Zenon
<1>4. n # 0 => c # << >>
  BY <1>1, EmptySeq
<1>5. SubSeq(c, 1, n) # << >> => n # 0
  BY <1>2, EmptySeq, Zenon
<1> QED
  BY <1>1, <1>2, <1>3, <1>4, <1>5

\* A write appends to what is on the way unless the connection is gone.
LEMMA SendFacts ==
  ASSUME Typed, NEW s \in Sides, NEW in \in Seq(Messages), NEW m \in Messages,
         NEW next \in States, Send(s, in, m, next)
  PROVE  /\ chan' \in [Sides -> Seq(Messages)]
         /\ chan'[s] = in
         /\ chan'[Other(s)] = IF cut = "no" THEN Append(chan[Other(s)], m)
                                            ELSE chan[Other(s)]
         /\ pc' \in [Sides -> States]
         /\ pc'[s] = next \/ (cut # "no" /\ pc'[s] = "closed")
         /\ pc'[Other(s)] = pc[Other(s)]
         /\ cut' = cut
         /\ result' \in [Sides -> {"none", "ok", "failed"}]
<1>1. Other(s) \in Sides /\ Other(s) # s
  BY Zenon DEF Sides, Other
<1>2. Append(chan[Other(s)], m) \in Seq(Messages)
  BY <1>1, AppendFacts, Zenon DEF Typed
<1>3. /\ chan \in [Sides -> Seq(Messages)] /\ pc \in [Sides -> States]
      /\ result \in [Sides -> {"none", "ok", "failed"}]
  BY Zenon DEF Typed, TypeOK
<1>4. CASE /\ chan' = [chan EXCEPT ![s] = in,
                             ![Other(s)] = IF cut = "no" THEN Append(@, m) ELSE @]
           /\ pc' = [pc EXCEPT ![s] = next]
           /\ UNCHANGED <<cut, result>>
  BY <1>1, <1>2, <1>3, <1>4, Zenon
<1>5. CASE cut # "no" /\ chan' = [chan EXCEPT ![s] = in] /\ Failed(s, "closed")
  <2>1. pc' = [pc EXCEPT ![s] = "closed"] /\ cut' = cut /\ "closed" \in States
    BY <1>5, Zenon DEF Failed, Close, States
  <2>2. result' \in [Sides -> {"none", "ok", "failed"}]
    BY <1>3, <1>5, Zenon DEF Failed
  <2> QED
    BY <1>1, <1>3, <1>5, <2>1, <2>2, Zenon
<1> QED
  BY <1>4, <1>5, Zenon DEF Send

-----------------------------------------------------------------------------
\* CryptState_create: no keys, no nonces, nothing on the way.
LEMMA InitIsGood == Init => IInv
<1> SUFFICES ASSUME Init PROVE IInv
  BY Zenon
<1> USE SidesAre
<1>1. CryptState_create_nonce("unset") \in Nonces
  BY NonceFacts
<1>2. << >> \in Seq(Messages) /\ Len(<< >>) = 0 /\ DOMAIN << >> = {}
  OBVIOUS
<1>3. /\ pc["hub"] = "start" /\ pc["proxy"] = "wait_first" /\ pc \in [Sides -> States]
      /\ \A s \in Sides : chan[s] = << >> /\ skey[s] = FALSE
      /\ chan = [s \in Sides |-> << >>] /\ sent = [s \in Sides |-> 0]
      /\ result = [s \in Sides |-> "none"] /\ skey = [s \in Sides |-> FALSE]
      /\ cut = "no" /\ expects \in {"match", "other key", "other name"}
  BY Zenon DEF Init, States
<1>4. me \in [Sides -> Nonces] /\ them \in [Sides -> Nonces]
  BY <1>1, Zenon DEF Init
<1>5. Typed
  <2>1. chan \in [Sides -> Seq(Messages)] /\ \A s \in Sides : chan[s] \in Seq(Messages)
    BY <1>2, <1>3, Zenon
  <2>2. sent \in [Sides -> 0 .. MaxSent]
    <3>1. 0 \in 0 .. MaxSent
      BY MaxSentAssumption
    <3> QED
      BY <1>3, <3>1, Zenon
  <2> QED
    BY <1>3, <1>4, <2>1, <2>2, Zenon DEF Typed, TypeOK, Messages
<1>6. Gone /\ HubStages /\ ProxyStages /\ Counting
  <2>1. Gone /\ Counting
    BY <1>3, Zenon DEF Gone, Counting
  <2>2. HubStages
    BY <1>3, Zenon DEF HubStages
  <2>3. ProxyStages
    <3>1. chan["proxy"] = << >>
      BY <1>3, Zenon
    <3>2. AtMost("proxy", StartMsg)
      BY <1>2, <3>1 DEF AtMost
    <3> QED
      BY <1>3, <3>2, Zenon DEF ProxyStages
  <2> QED
    BY <2>1, <2>2, <2>3, Zenon
<1>7. InStep
  BY <1>2, <1>3, Zenon DEF InStep
<1> QED
  BY <1>5, <1>6, <1>7, Zenon DEF IInv

\* A side that leaves the open session cuts the connection.
LEMMA LeaveIsGood ==
  ASSUME IInv, NEW s \in Sides, Leave(s)
  PROVE  IInv'
<1> USE SidesAre
<1>1. /\ pc[s] = "open" /\ pc' = [pc EXCEPT ![s] = "closed"]
      /\ pc \in [Sides -> States] /\ "closed" \in States
      /\ cut' # "no" /\ cut' \in {"no", "network"} \cup Sides
      /\ UNCHANGED <<me, them, skey, result, chan, sent, expects>>
  BY Zenon DEF Leave, Close, IInv, Typed, TypeOK, States
<1>2. Typed'
  BY <1>1, Zenon DEF IInv, Typed, TypeOK
<1>3. Gone' /\ Counting'
  BY <1>1, Zenon DEF IInv, Gone, Counting
<1>4. HubStages'
  BY <1>1, Zenon DEF IInv, HubStages, AtMost
<1>5. ProxyStages'
  BY <1>1, Zenon DEF IInv, ProxyStages, AtMost
<1>6. InStep'
  BY <1>1 DEF IInv, InStep, KeyFor
<1> QED
  BY <1>2, <1>3, <1>4, <1>5, <1>6, Zenon DEF IInv

\* Proxy_final_verify changes no key and no nonce.
LEMMA VerifyIsGood ==
  ASSUME IInv, Proxy_final_verify
  PROVE  IInv'
<1> USE SidesAre
<1>1. /\ pc["proxy"] = "verify" /\ pc' = [pc EXCEPT !["proxy"] = "open"]
      /\ pc \in [Sides -> States] /\ "open" \in States
      /\ result' = [result EXCEPT !["proxy"] = "ok"]
      /\ UNCHANGED <<me, them, skey, chan, cut, sent, expects>>
  BY Zenon DEF Proxy_final_verify, IInv, Typed, TypeOK, States
<1>2. Typed'
  BY <1>1, Zenon DEF IInv, Typed, TypeOK
<1>3. Gone' /\ Counting'
  BY <1>1, Zenon DEF IInv, Gone, Counting, Follows, ProxyStages
<1>4. HubStages'
  BY <1>1, Zenon DEF IInv, HubStages, AtMost
<1>5. ProxyStages'
  BY <1>1, Zenon DEF IInv, ProxyStages, AtMost
<1>6. InStep'
  BY <1>1 DEF IInv, InStep, KeyFor
<1> QED
  BY <1>2, <1>3, <1>4, <1>5, <1>6, Zenon DEF IInv

\* A read that meets the end of the connection leaves nothing on the way.
LEMMA ReadFailsIsGood ==
  ASSUME IInv, NEW s \in Sides, EstablishReadFails(s)
  PROVE  IInv'
<1> USE SidesAre
<1>1. /\ chan[s] = << >> /\ cut # "no" /\ cut' = cut
      /\ pc[s] \in {"wait_init", "wait_first", "wait_final", "wait_recv"}
      /\ \/ pc' = [pc EXCEPT ![s] = "closed"]
         \/ pc[s] \in {"wait_final", "wait_recv"} /\ pc' = [pc EXCEPT ![s] = "open"]
      /\ UNCHANGED <<me, them, skey, chan, sent, expects>>
  <2>1. CASE \E state \in {"wait_init", "wait_first"} :
               AtEnd(s, state) /\ Failed(s, "closed")
    BY <2>1, Zenon DEF EstablishReadFails, AtEnd, Failed, Close
  <2>2. CASE \E state \in {"wait_final", "wait_recv"} :
               /\ AtEnd(s, state)
               /\ pc' = [pc EXCEPT ![s] = "open"]
               /\ result' = [result EXCEPT ![s] = "ok"]
               /\ UNCHANGED cut
    BY <2>2, Zenon DEF EstablishReadFails, AtEnd
  <2> QED
    BY <2>1, <2>2, Zenon DEF EstablishReadFails
<1>2. pc \in [Sides -> States] /\ {"open", "closed"} \subseteq States
  BY Zenon DEF IInv, Typed, TypeOK, States
<1>3. result' \in [Sides -> {"none", "ok", "failed"}]
  BY Zenon DEF EstablishReadFails, Failed, IInv, Typed, TypeOK
<1>4. Typed'
  <2>1. pc' \in [Sides -> States]
    BY <1>1, <1>2, Zenon
  <2> QED
    BY <1>1, <1>3, <2>1, Zenon DEF IInv, Typed, TypeOK
<1>5. Gone' /\ Counting'
  BY <1>1, <1>2, ZenonT(30) DEF IInv, Gone, Counting
<1>6. HubStages'
  BY <1>1, <1>2 DEF IInv, HubStages, ProxyStages, Gone, AtMost
<1>7. ProxyStages'
  BY <1>1, <1>2 DEF IInv, ProxyStages, HubStages, Gone, AtMost
<1>8. InStep'
  BY <1>1, <1>2 DEF IInv, InStep, KeyFor
<1> QED
  BY <1>4, <1>5, <1>6, <1>7, <1>8, Zenon DEF IInv

\* What InStep says of one message on the way.
LEMMA InStepFacts ==
  ASSUME InStep, NEW s \in Sides, pc[s] \notin {"wait_first", "closed"},
         NEW k \in DOMAIN chan[s]
  PROVE  chan[s][k].nonce = Plus(me[s], k - 1) /\ chan[s][k].key = KeyFor(s, k)
BY Zenon DEF InStep

\* A cut loses the tail of what is on the way and leaves the head as it was.
LEMMA HangupIsGood ==
  ASSUME IInv, Hangup
  PROVE  IInv'
<1> USE SidesAre
<1>1. chan \in [Sides -> Seq(Messages)] /\ \A s \in Sides : Len(chan[s]) \in Nat
  BY LenProperties, Zenon DEF IInv, Typed
<1>2. cut' = "network" /\ UNCHANGED <<pc, me, them, skey, result, sent, expects>>
  BY Zenon DEF Hangup
<1>3. PICK h \in 0 .. Len(chan["hub"]), p \in 0 .. Len(chan["proxy"]) :
        chan' = [s \in Sides |-> SubSeq(chan[s], 1, IF s = "hub" THEN h ELSE p)]
  BY Zenon DEF Hangup
<1>4. chan'["hub"] = SubSeq(chan["hub"], 1, h) /\ chan'["proxy"] = SubSeq(chan["proxy"], 1, p)
  BY <1>3, Zenon
<1>5. \A s \in Sides :
        /\ chan'[s] \in Seq(Messages) /\ Len(chan'[s]) \in Nat /\ Len(chan'[s]) <= Len(chan[s])
        /\ \A k \in DOMAIN chan'[s] : k \in DOMAIN chan[s] /\ chan'[s][k] = chan[s][k]
        /\ chan'[s] # << >> => chan[s] # << >> /\ chan'[s][1] = chan[s][1]
  <2>1. /\ chan'["hub"] \in Seq(Messages) /\ Len(chan'["hub"]) = h
        /\ \A k \in DOMAIN chan'["hub"] :
              k \in DOMAIN chan["hub"] /\ chan'["hub"][k] = chan["hub"][k]
        /\ chan'["hub"] # << >> => chan["hub"] # << >> /\ chan'["hub"][1] = chan["hub"][1]
    BY <1>1, <1>4, PrefixFacts
  <2>2. /\ chan'["proxy"] \in Seq(Messages) /\ Len(chan'["proxy"]) = p
        /\ \A k \in DOMAIN chan'["proxy"] :
              k \in DOMAIN chan["proxy"] /\ chan'["proxy"][k] = chan["proxy"][k]
        /\ chan'["proxy"] # << >> => chan["proxy"] # << >> /\ chan'["proxy"][1] = chan["proxy"][1]
    BY <1>1, <1>4, PrefixFacts
  <2> QED
    BY <1>1, <2>1, <2>2, SMTT(30)
<1>6. Typed'
  <2>1. chan' \in [Sides -> Seq(Messages)]
    BY <1>3, <1>5, Zenon
  <2> QED
    BY <1>2, <2>1, Zenon DEF IInv, Typed, TypeOK, Messages
<1>7. Gone' /\ Counting'
  BY <1>2, <1>5, Zenon DEF IInv, Gone, Counting
<1>8. \A s \in Sides : \A m : AtMost(s, m) => AtMost(s, m)'
  BY <1>1, <1>5 DEF AtMost
<1>9. HubStages'
  BY <1>2, <1>5, <1>8, Zenon DEF IInv, HubStages
<1>10. ProxyStages'
  BY <1>2, <1>5, <1>8, Zenon DEF IInv, ProxyStages
<1>11. InStep'
  <2> SUFFICES ASSUME NEW s \in Sides, pc'[s] \notin {"wait_first", "closed"},
                      NEW k \in DOMAIN chan'[s]
               PROVE  chan'[s][k].nonce = Plus(me'[s], k - 1) /\ chan'[s][k].key = KeyFor(s, k)'
    BY Zenon DEF InStep
  <2>1. chan'[s][k] = chan[s][k] /\ k \in DOMAIN chan[s]
    BY <1>5, Zenon
  <2>2. chan[s][k].nonce = Plus(me[s], k - 1) /\ chan[s][k].key = KeyFor(s, k)
    BY <1>2, <2>1, InStepFacts, Zenon DEF IInv
  <2> QED
    BY <1>2, <2>1, <2>2, Zenon DEF KeyFor
<1> QED
  BY <1>6, <1>7, <1>9, <1>10, <1>11, Zenon DEF IInv

\* After a read the rest is numbered from the next nonce on.
LEMMA ReadFacts ==
  ASSUME NEW c \in Seq(Messages), c # << >>, NEW x \in Nonces,
         \A k \in DOMAIN c : c[k].nonce = Plus(x, k - 1)
  PROVE  /\ c[1].nonce = x
         /\ \A k \in DOMAIN Tail(c) : Tail(c)[k].nonce = Plus(CryptState_nonce_inc(x), k - 1)
         /\ Plus(CryptState_nonce_inc(x), Len(Tail(c))) = Plus(x, Len(c))
<1>1. c[1].nonce = x
  BY TailFacts, PlusFacts, SMTT(30)
<1>2. ASSUME NEW k \in DOMAIN Tail(c)
      PROVE  Tail(c)[k].nonce = Plus(CryptState_nonce_inc(x), k - 1)
  <2>1. k - 1 \in Nat /\ k - 1 + 1 = k /\ k + 1 - 1 = k
    BY TailFacts
  <2>2. k + 1 \in DOMAIN c /\ Tail(c)[k] = c[k + 1]
    BY TailFacts, Zenon
  <2>3. c[k + 1].nonce = Plus(x, k + 1 - 1)
    BY <2>2
  <2>4. Tail(c)[k].nonce = Plus(x, k)
    BY <2>1, <2>2, <2>3, Zenon
  <2>5. Plus(CryptState_nonce_inc(x), k - 1) = Plus(x, k - 1 + 1)
    BY <2>1, PlusFacts, Zenon
  <2> QED
    BY <2>1, <2>4, <2>5, Zenon
<1>3. Len(Tail(c)) \in Nat /\ Len(Tail(c)) + 1 = Len(c)
  BY TailFacts
<1> QED
  BY <1>1, <1>2, <1>3, PlusFacts

\* Whatever arrives decrypts, and the rest moves up by one.
LEMMA RecvIsGood ==
  ASSUME IInv, NEW s \in Sides, Peer_recv(s)
  PROVE  IInv'
<1> USE SidesAre
<1>1. /\ chan \in [Sides -> Seq(Messages)] /\ me \in [Sides -> Nonces]
      /\ pc[s] = "open" /\ chan[s] # << >> /\ skey[s]
      /\ me' = [me EXCEPT ![s] = CryptState_nonce_inc(@)]
      /\ chan' = [chan EXCEPT ![s] = Tail(@)]
      /\ UNCHANGED <<them, skey, result, sent, expects>>
  BY Zenon DEF Peer_recv, Reading, IInv, Typed, TypeOK, Gone
<1>2. \A k \in DOMAIN chan[s] : chan[s][k].nonce = Plus(me[s], k - 1) /\ chan[s][k].key = s
  <2> TAKE k \in DOMAIN chan[s]
  <2>1. KeyFor(s, k) = s
    BY <1>1, Zenon DEF KeyFor
  <2>2. InStep /\ pc[s] \notin {"wait_first", "closed"}
    BY <1>1, Zenon DEF IInv
  <2> QED
    BY <2>1, <2>2, InStepFacts, Zenon
<1>3. /\ Tail(chan[s]) \in Seq(Messages) /\ Head(chan[s]) = chan[s][1] /\ 1 \in DOMAIN chan[s]
      /\ \A k \in DOMAIN Tail(chan[s]) : k + 1 \in DOMAIN chan[s] /\ Tail(chan[s])[k] = chan[s][k + 1]
  BY <1>1, TailFacts, Zenon
<1>4. /\ chan[s][1].nonce = me[s]
      /\ \A k \in DOMAIN Tail(chan[s]) :
            Tail(chan[s])[k].nonce = Plus(CryptState_nonce_inc(me[s]), k - 1)
      /\ Plus(CryptState_nonce_inc(me[s]), Len(Tail(chan[s]))) = Plus(me[s], Len(chan[s]))
  <2>1. chan[s] \in Seq(Messages) /\ me[s] \in Nonces
    BY <1>1, Zenon
  <2> QED
    BY <1>1, <1>2, <2>1, ReadFacts
<1>5. UNCHANGED <<pc, cut>>
  BY <1>1, <1>2, <1>3, <1>4 DEF Peer_recv, CryptState_decrypt_node, MyKey
<1>6. CryptState_nonce_inc(me[s]) \in Nonces /\ CryptState_nonce_inc(me[s]).of = me[s].of
  BY <1>1, PlusFacts, Zenon
<1>7. Typed'
  BY <1>1, <1>3, <1>5, <1>6, ZenonT(30) DEF IInv, Typed, TypeOK, Messages
<1>8. Gone' /\ HubStages' /\ ProxyStages'
  BY <1>1, <1>5, <1>6 DEF IInv, Gone, HubStages, ProxyStages, AtMost
<1>9. Counting'
  BY <1>1, <1>4, <1>5, Zenon DEF IInv, Counting, Follows
<1>10. InStep'
  BY <1>1, <1>2, <1>3, <1>4, <1>5, SMTT(30) DEF IInv, InStep, KeyFor
<1> QED
  BY <1>7, <1>8, <1>9, <1>10, Zenon DEF IInv

\* What is sent after the handshake goes under the nonce the peer will have,
\* with the key it will have.
LEMMA SendIsGood ==
  ASSUME IInv, NEW s \in Sides, Peer_send(s)
  PROVE  IInv'
<1> USE SidesAre
<1> DEFINE o == Other(s)
           m == Message(TheirKey(s), them[s], "data", << >>)
<1>1. /\ chan \in [Sides -> Seq(Messages)] /\ me \in [Sides -> Nonces]
      /\ them \in [Sides -> Nonces] /\ pc[s] = "open" /\ o \in Sides /\ o # s
      /\ them' = [them EXCEPT ![s] = CryptState_nonce_inc(@)]
      /\ UNCHANGED <<me, skey, expects>>
  BY Zenon DEF Peer_send, IInv, Typed, TypeOK
<1>2. /\ m \in Messages /\ m.nonce = them[s] /\ m.key = TheirKey(s)
  <2>1. TheirKey(s) \in Keys /\ "data" \in Kinds /\ << >> \in Seq(Nonces)
    BY DEF TheirKey, Keys, Kinds
  <2>2. them[s] \in Nonces
    BY <1>1, Zenon
  <2> QED
    BY <2>1, <2>2, Zenon DEF Message, Messages
<1>3. /\ chan' \in [Sides -> Seq(Messages)]
      /\ chan'[s] = chan[s]
      /\ chan'[o] = IF cut = "no" THEN Append(chan[o], m) ELSE chan[o]
      /\ pc' \in [Sides -> States]
      /\ pc'[s] = "open" \/ (cut # "no" /\ pc'[s] = "closed")
      /\ pc'[o] = pc[o]
      /\ cut' = cut
      /\ result' \in [Sides -> {"none", "ok", "failed"}]
  <2>1. Send(s, chan[s], m, "open") /\ "open" \in States /\ chan[s] \in Seq(Messages) /\ Typed
    BY <1>1, Zenon DEF Peer_send, States, IInv
  <2> QED
    BY <1>2, <2>1, SendFacts, Zenon
<1>4. sent' \in [Sides -> 0 .. MaxSent]
  <2>1. sent \in [Sides -> 0 .. MaxSent] /\ sent[s] < MaxSent /\ sent' = [sent EXCEPT ![s] = @ + 1]
    BY Zenon DEF Peer_send, IInv, Typed, TypeOK
  <2>2. sent[s] + 1 \in 0 .. MaxSent
    BY <2>1, MaxSentAssumption
  <2> QED
    BY <2>1, <2>2, Zenon
<1>5. CryptState_nonce_inc(them[s]) \in Nonces /\ CryptState_nonce_inc(them[s]).of = them[s].of
  BY <1>1, PlusFacts, Zenon
<1>6. Typed'
  BY <1>1, <1>3, <1>4, <1>5, Zenon DEF IInv, Typed, TypeOK, Messages
<1>7. cut = "no" => skey[s] /\ skey["proxy"] /\ them[s] = Plus(me[o], Len(chan[o]))
  BY <1>1, Zenon DEF IInv, Gone, HubStages, Counting, Follows
<1>8. cut = "no" =>
        /\ chan'[o] # << >> /\ Len(chan'[o]) = Len(chan[o]) + 1 /\ Len(chan[o]) \in Nat
        /\ \A k \in DOMAIN chan'[o] :
              \/ k \in DOMAIN chan[o] /\ chan'[o][k] = chan[o][k]
              \/ k = Len(chan[o]) + 1 /\ chan'[o][k] = m
        /\ chan[o] # << >> => chan'[o][1] = chan[o][1]
  BY <1>1, <1>2, <1>3, AppendFacts
<1>9. CASE cut # "no"
  <2>1. UNCHANGED chan
    BY <1>1, <1>3, <1>9, SMTT(30)
  <2>2. Gone' /\ Counting'
    BY <1>1, <1>3, <1>9, <2>1 DEF IInv, Gone, Counting
  <2>3. HubStages'
    BY <1>1, <1>3, <1>5, <1>9, <2>1 DEF IInv, HubStages, AtMost
  <2>4. ProxyStages'
    BY <1>1, <1>3, <1>5, <1>9, <2>1 DEF IInv, ProxyStages, AtMost
  <2>5. InStep'
    BY <1>1, <1>3, <2>1 DEF IInv, InStep, KeyFor
  <2> QED
    BY <1>6, <2>2, <2>3, <2>4, <2>5, Zenon DEF IInv
<1>10. CASE cut = "no"
  <2>1. UNCHANGED pc /\ skey[s] /\ skey["proxy"]
    <3>1. pc \in [Sides -> States] /\ \A t \in Sides : pc'[t] = pc[t]
      BY <1>1, <1>3, <1>10, ZenonT(30) DEF IInv, Typed, TypeOK
    <3> QED
      BY <1>3, <1>7, <1>10, <3>1
  <2>2. Gone'
    BY <1>1, <1>3, <1>10, <2>1, Zenon DEF IInv, Gone
  <2>3. pc["proxy"] \in {"verify", "open", "closed"} /\ pc["hub"] \notin {"start", "wait_init"}
    BY <2>1, Zenon DEF IInv, Gone, HubStages
  <2>4. pc[o] = "wait_final" => chan[o] # << >>
    BY <1>10, <2>1, <2>3, Zenon DEF IInv, HubStages
  <2>5. HubStages'
    <3>1. pc["hub"] = "wait_final" => chan'["hub"] # << >> /\ chan'["hub"][1] = FinalMsg
      BY <1>1, <1>3, <1>8, <1>10, <2>1, <2>4, ZenonT(30) DEF IInv, HubStages
    <3>2. them'["hub"].of = them["hub"].of /\ (pc["hub"] = "wait_final" => them'["hub"] = them["hub"])
      BY <1>1, <1>5, Zenon
    <3> QED
      BY <1>1, <1>3, <2>1, <2>3, <3>1, <3>2, Zenon DEF IInv, HubStages
  <2>6. ProxyStages'
    BY <1>1, <1>3, <1>5, <1>10, <2>1, <2>3 DEF IInv, ProxyStages
  <2>7. Counting'
    <3>1. CryptState_nonce_inc(them[s]) = Plus(me[o], Len(chan'[o]))
      <4>1. me[o] \in Nonces /\ Len(chan[o]) \in Nat /\ Len(chan'[o]) = Len(chan[o]) + 1
        BY <1>1, <1>8, <1>10, Zenon
      <4>2. CryptState_nonce_inc(Plus(me[o], Len(chan[o]))) = Plus(me[o], Len(chan[o]) + 1)
        BY <4>1, PlusFacts, Zenon
      <4> QED
        BY <1>7, <1>10, <4>1, <4>2, Zenon
    <3> QED
      BY <1>1, <1>3, <1>10, <2>1, <3>1 DEF IInv, Counting, Follows
  <2>8. InStep'
    <3> SUFFICES ASSUME NEW t \in Sides, pc'[t] \notin {"wait_first", "closed"},
                        NEW k \in DOMAIN chan'[t]
                 PROVE  chan'[t][k].nonce = Plus(me'[t], k - 1) /\ chan'[t][k].key = KeyFor(t, k)'
      BY Zenon DEF InStep
    <3>1. InStep /\ KeyFor(t, k)' = KeyFor(t, k) /\ me' = me
      BY <1>1, <2>1, Zenon DEF IInv, KeyFor
    <3>2. CASE k \in DOMAIN chan[t] /\ chan'[t][k] = chan[t][k]
      BY <2>1, <3>1, <3>2, InStepFacts
    <3>3. CASE t = o /\ k = Len(chan[o]) + 1 /\ chan'[t][k] = m
      <4>1. k - 1 = Len(chan[o]) /\ (pc[o] = "wait_final" => k # 1)
        BY <1>1, <1>8, <1>10, <2>4, <3>3, EmptySeq
      <4>2. KeyFor(o, k) = o
        BY <2>3, <4>1, <3>3, Zenon DEF KeyFor, IInv, HubStages, ProxyStages
      <4>3. TheirKey(s) = o
        BY <2>1, Zenon DEF TheirKey
      <4> QED
        BY <1>2, <1>7, <1>10, <3>1, <3>3, <4>1, <4>2, <4>3, Zenon
    <3> QED
      BY <1>1, <1>3, <1>8, <1>10, <3>2, <3>3, ZenonT(30)
  <2> QED
    BY <1>6, <2>2, <2>5, <2>6, <2>7, <2>8, Zenon DEF IInv
<1> QED
  BY <1>9, <1>10, Zenon

-----------------------------------------------------------------------------
(* The handshake, where at most one message is on the way. *)

\* Keys, nonces and contents of the four messages of the handshake.
LEMMA HandshakeMessages ==
  /\ StartMsg \in Messages /\ InitMsg \in Messages
  /\ RecvMsg \in Messages /\ FinalMsg \in Messages
  /\ StartMsg.carries[1] = N("first", 0)
  /\ InitMsg.key = "shared" /\ InitMsg.nonce = N("first", 0)
  /\ InitMsg.carries[1] = N("proxy", 0)
  /\ RecvMsg.key = "shared" /\ RecvMsg.nonce = N("proxy", 0)
  /\ RecvMsg.carries[2] = N("hub", 0)
  /\ FinalMsg.key = "shared" /\ FinalMsg.nonce = N("hub", 0)
  /\ FinalMsg.carries[1] = N("hub", 0)
<1>1. \A of \in {"unset", "first", "hub", "proxy"} : N(of, 0) \in Nonces
  BY NonceFacts, Zenon
<1>2. StartMsg \in Messages /\ InitMsg \in Messages /\ FinalMsg \in Messages
  BY <1>1 DEF StartMsg, InitMsg, FinalMsg, Message, Messages, Keys, Kinds
<1>3. RecvMsg \in Messages
  BY <1>1 DEF RecvMsg, Message, Messages, Keys, Kinds
<1> QED
  BY <1>2, <1>3, Zenon DEF StartMsg, InitMsg, RecvMsg, FinalMsg, Message

\* Reading the only message empties a channel.
LEMMA LastOne ==
  ASSUME NEW c \in Seq(Messages), Len(c) <= 1, c # << >>
  PROVE  Tail(c) = << >> /\ Head(c) = c[1] /\ 1 \in DOMAIN c
<1>1. /\ Tail(c) \in Seq(Messages) /\ Head(c) = c[1] /\ 1 \in DOMAIN c
      /\ Len(c) \in Nat \ {0} /\ Len(Tail(c)) = Len(c) - 1
  BY TailFacts, Zenon
<1>2. Len(Tail(c)) = 0
  BY <1>1
<1> QED
  BY <1>1, <1>2, EmptySeq, Zenon

\* Writing to an empty channel.
LEMMA FirstOne ==
  ASSUME NEW m \in Messages
  PROVE  /\ Append(<< >>, m) # << >> /\ Len(Append(<< >>, m)) = 1
         /\ Append(<< >>, m)[1] = m
         /\ \A k \in DOMAIN Append(<< >>, m) : k = 1
OBVIOUS

\* FrameSource_send by the hub; after a cut it may fail or write to nobody.
LEMMA HubSendFacts ==
  ASSUME Typed, NEW in \in Seq(Messages), NEW m \in Messages, NEW next \in States,
         Send("hub", in, m, next)
  PROVE  /\ chan' \in [Sides -> Seq(Messages)]
         /\ chan'["hub"] = in
         /\ chan'["proxy"] = IF cut = "no" THEN Append(chan["proxy"], m) ELSE chan["proxy"]
         /\ pc' \in [Sides -> States]
         /\ pc'["hub"] = next \/ (cut # "no" /\ pc'["hub"] = "closed")
         /\ pc'["proxy"] = pc["proxy"]
         /\ cut' = cut
         /\ result' \in [Sides -> {"none", "ok", "failed"}]
<1>1. "hub" \in Sides /\ Other("hub") = "proxy"
  BY SidesAre, Zenon
<1> QED
  BY <1>1, SendFacts

\* The same by the proxy.
LEMMA ProxySendFacts ==
  ASSUME Typed, NEW in \in Seq(Messages), NEW m \in Messages, NEW next \in States,
         Send("proxy", in, m, next)
  PROVE  /\ chan' \in [Sides -> Seq(Messages)]
         /\ chan'["proxy"] = in
         /\ chan'["hub"] = IF cut = "no" THEN Append(chan["hub"], m) ELSE chan["hub"]
         /\ pc' \in [Sides -> States]
         /\ pc'["proxy"] = next \/ (cut # "no" /\ pc'["proxy"] = "closed")
         /\ pc'["hub"] = pc["hub"]
         /\ cut' = cut
         /\ result' \in [Sides -> {"none", "ok", "failed"}]
<1>1. "proxy" \in Sides /\ Other("proxy") = "hub"
  BY SidesAre, Zenon
<1> QED
  BY <1>1, SendFacts

\* The hub sends its identity and its first nonce.
LEMMA ReceiverStartIsGood ==
  ASSUME IInv, CryptState_receiver_start
  PROVE  IInv'
<1> USE SidesAre
<1>1. /\ CryptState_create_nonce("first") = N("first", 0) /\ N("first", 0) \in Nonces
      /\ CryptState_create_nonce("unset") = N("unset", 0)
  BY NonceFacts, Zenon
<1>2. /\ pc["hub"] = "start" /\ me \in [Sides -> Nonces]
      /\ me' = [me EXCEPT !["hub"] = N("first", 0)]
      /\ Send("hub", chan["hub"], StartMsg, "wait_init")
      /\ UNCHANGED <<them, skey, sent, expects>>
  BY <1>1, Zenon DEF CryptState_receiver_start, StartMsg, IInv, Typed, TypeOK
<1>3. /\ chan["hub"] = << >> /\ chan["proxy"] = << >> /\ pc["proxy"] \in {"wait_first", "closed"}
      /\ ~skey["hub"] /\ ~skey["proxy"]
  BY <1>2, Zenon DEF IInv, HubStages, Gone
<1>4. /\ chan' \in [Sides -> Seq(Messages)]
      /\ chan'["hub"] = << >>
      /\ chan'["proxy"] = IF cut = "no" THEN Append(<< >>, StartMsg) ELSE << >>
      /\ pc' \in [Sides -> States]
      /\ pc'["hub"] = "wait_init" \/ (cut # "no" /\ pc'["hub"] = "closed")
      /\ pc'["proxy"] = pc["proxy"]
      /\ cut' = cut
      /\ result' \in [Sides -> {"none", "ok", "failed"}]
  <2>1. "wait_init" \in States /\ << >> \in Seq(Messages) /\ Typed /\ StartMsg \in Messages
    BY HandshakeMessages DEF States, IInv
  <2>2. Send("hub", << >>, StartMsg, "wait_init")
    BY <1>2, <1>3, Zenon
  <2> QED
    BY <1>3, <2>1, <2>2, HubSendFacts, Zenon
<1>5. AtMost("hub", InitMsg)' /\ AtMost("proxy", StartMsg)'
  BY <1>4, FirstOne, HandshakeMessages DEF AtMost
<1>6. Typed'
  BY <1>1, <1>2, <1>4, Zenon DEF IInv, Typed, TypeOK, Messages
<1>7. Gone' /\ Counting'
  BY <1>2, <1>3, <1>4, Zenon DEF IInv, Gone, Counting
<1>8. pc["proxy"] = "closed" => cut # "no"
  BY Zenon DEF IInv, Gone
<1>9. HubStages'
  BY <1>2, <1>3, <1>4, <1>5, <1>8, Zenon DEF HubStages
<1>10. ProxyStages'
  BY <1>2, <1>3, <1>4, <1>5, Zenon DEF ProxyStages
<1>11. InStep'
  BY <1>3, <1>4 DEF InStep
<1> QED
  BY <1>6, <1>7, <1>9, <1>10, <1>11, Zenon DEF IInv

\* The proxy reads it and answers with its own.
LEMMA InitiatorStartIsGood ==
  ASSUME IInv, CryptState_initiator_start
  PROVE  IInv'
<1> USE SidesAre
<1>1. /\ pc["proxy"] = "wait_first" /\ chan["proxy"] # << >> /\ chan["hub"] = << >>
      /\ pc["hub"] \in {"wait_init", "closed"} /\ AtMost("proxy", StartMsg)
      /\ ~skey["hub"] /\ ~skey["proxy"]
      /\ me \in [Sides -> Nonces] /\ them \in [Sides -> Nonces]
      /\ chan \in [Sides -> Seq(Messages)]
  BY Zenon
     DEF CryptState_initiator_start, Reading, IInv, Typed, TypeOK, ProxyStages, HubStages, Gone
<1>2. Tail(chan["proxy"]) = << >> /\ Head(chan["proxy"]) = StartMsg
  BY <1>1, LastOne, Zenon DEF AtMost
<1>3. /\ Carried("proxy")[1] = N("first", 0)
      /\ CryptState_create_nonce("proxy") = N("proxy", 0)
      /\ CryptState_nonce_inc(N("first", 0)) = N("first", 1)
      /\ N("first", 0) \in Nonces /\ N("first", 1) \in Nonces /\ N("proxy", 0) \in Nonces
  <2>1. Carried("proxy")[1] = N("first", 0)
    BY <1>2, HandshakeMessages, Zenon DEF Carried
  <2> QED
    BY <2>1, NonceFacts
<1>4. CASE Proxy_confirm_key
  <2>1. /\ me' = [me EXCEPT !["proxy"] = N("proxy", 0)]
        /\ them' = [them EXCEPT !["proxy"] = N("first", 1)]
        /\ Send("proxy", << >>, InitMsg, "wait_recv")
        /\ UNCHANGED <<skey, sent, expects>>
    BY <1>2, <1>3, <1>4, Zenon
       DEF CryptState_initiator_start, CryptState_create_shared_key, InitMsg
  <2>2. /\ chan' \in [Sides -> Seq(Messages)]
        /\ chan'["proxy"] = << >>
        /\ chan'["hub"] = IF cut = "no" THEN Append(<< >>, InitMsg) ELSE << >>
        /\ pc' \in [Sides -> States]
        /\ pc'["proxy"] = "wait_recv" \/ (cut # "no" /\ pc'["proxy"] = "closed")
        /\ pc'["hub"] = pc["hub"]
        /\ cut' = cut
        /\ result' \in [Sides -> {"none", "ok", "failed"}]
    <3>1. "wait_recv" \in States /\ << >> \in Seq(Messages) /\ Typed /\ InitMsg \in Messages
      BY HandshakeMessages DEF States, IInv
    <3> QED
      BY <1>1, <2>1, <3>1, ProxySendFacts, Zenon
  <2>3. AtMost("hub", InitMsg)' /\ AtMost("proxy", RecvMsg)'
    BY <2>2, FirstOne, HandshakeMessages DEF AtMost
  <2>4. Typed'
    BY <1>3, <2>1, <2>2, Zenon DEF IInv, Typed, TypeOK, Messages
  <2>5. Gone' /\ Counting'
    BY <1>1, <2>1, <2>2, Zenon DEF IInv, Gone, Counting
  <2>6. HubStages'
    BY <1>1, <2>1, <2>2, <2>3, Zenon DEF IInv, HubStages
  <2>7. ProxyStages'
    BY <1>1, <1>3, <2>1, <2>2, <2>3, Zenon DEF ProxyStages
  <2>8. InStep'
    <3>1. cut = "no" => pc["hub"] = "wait_init" /\ me["hub"] = N("first", 0)
      BY <1>1, Zenon DEF IInv, Gone, HubStages
    <3>2. me'["hub"] = me["hub"] /\ Plus(N("first", 0), 0) = N("first", 0)
      BY <1>1, <1>3, <2>1, PlusFacts, Zenon
    <3> QED
      BY <2>2, <3>1, <3>2, FirstOne, HandshakeMessages DEF InStep, KeyFor
  <2> QED
    BY <2>4, <2>5, <2>6, <2>7, <2>8, Zenon DEF IInv
<1>5. CASE ~Proxy_confirm_key
  <2>1. /\ them' = [them EXCEPT !["proxy"] = N("first", 0)]
        /\ chan' = [chan EXCEPT !["proxy"] = << >>]
        /\ pc' = [pc EXCEPT !["proxy"] = "closed"]
        /\ cut' # "no" /\ cut' \in {"no", "network"} \cup Sides
        /\ result' \in [Sides -> {"none", "ok", "failed"}]
        /\ pc \in [Sides -> States] /\ "closed" \in States /\ << >> \in Seq(Messages)
        /\ UNCHANGED <<me, skey, sent, expects>>
    <3>1. /\ them' = [them EXCEPT !["proxy"] = N("first", 0)]
          /\ chan' = [chan EXCEPT !["proxy"] = << >>]
          /\ Failed("proxy", "closed")
          /\ UNCHANGED <<me, skey, sent, expects>>
      BY <1>2, <1>3, <1>5, Zenon
         DEF CryptState_initiator_start, CryptState_create_shared_key
    <3>2. result' \in [Sides -> {"none", "ok", "failed"}]
      BY <3>1, Zenon DEF Failed, IInv, Typed, TypeOK
    <3>3. /\ pc' = [pc EXCEPT !["proxy"] = "closed"]
          /\ cut' # "no" /\ cut' \in {"no", "network"} \cup Sides
      BY <3>1, Zenon DEF Failed, Close, IInv, Typed, TypeOK
    <3>4. pc \in [Sides -> States] /\ "closed" \in States
      BY Zenon DEF IInv, Typed, TypeOK, States
    <3>5. << >> \in Seq(Messages)
      OBVIOUS
    <3> QED
      BY <3>1, <3>2, <3>3, <3>4, <3>5, Zenon
  <2>2. chan'["hub"] = << >> /\ chan'["proxy"] = << >>
    BY <1>1, <2>1, Zenon
  <2>3. Typed'
    BY <1>1, <1>3, <2>1, Zenon DEF IInv, Typed, TypeOK, Messages
  <2>4. Gone' /\ Counting'
    BY <1>1, <2>1, <2>2, Zenon DEF IInv, Gone, Counting
  <2>5. HubStages'
    BY <1>1, <2>1, <2>2, Zenon DEF IInv, HubStages, AtMost
  <2>6. ProxyStages'
    BY <1>1, <2>1, Zenon DEF ProxyStages
  <2>7. InStep'
    BY <2>2 DEF InStep
  <2> QED
    BY <2>3, <2>4, <2>5, <2>6, <2>7, Zenon DEF IInv
<1> QED
  BY <1>4, <1>5, Zenon

\* The hub reads the answer and sends the nonce of the session.
LEMMA ReceiverSendFinalIsGood ==
  ASSUME IInv, CryptState_receiver_send_final
  PROVE  IInv'
<1> USE SidesAre
<1>1. /\ pc["hub"] = "wait_init" /\ chan["hub"] # << >> /\ chan["proxy"] = << >>
      /\ pc["proxy"] # "wait_first" /\ AtMost("hub", InitMsg) /\ me["hub"] = N("first", 0)
      /\ ~skey["hub"] /\ ~skey["proxy"]
      /\ me \in [Sides -> Nonces] /\ them \in [Sides -> Nonces]
      /\ chan \in [Sides -> Seq(Messages)]
  BY Zenon
     DEF CryptState_receiver_send_final, Reading, IInv, Typed, TypeOK, ProxyStages, HubStages, Gone
<1>2. Tail(chan["hub"]) = << >> /\ Head(chan["hub"]) = InitMsg
  BY <1>1, LastOne, Zenon DEF AtMost
<1>3. /\ Carried("hub")[1] = N("proxy", 0)
      /\ CryptState_create_nonce("hub") = N("hub", 0)
      /\ CryptState_nonce_inc(N("proxy", 0)) = N("proxy", 1)
      /\ N("hub", 0) \in Nonces /\ N("proxy", 1) \in Nonces /\ N("proxy", 0) \in Nonces
      /\ N("proxy", 1).of = "proxy"
  <2>1. Carried("hub")[1] = N("proxy", 0)
    BY <1>2, HandshakeMessages, Zenon DEF Carried
  <2> QED
    BY <2>1, NonceFacts
<1>4. CryptState_create_shared_key("hub") /\ CryptState_decrypt_node("hub", "shared")
  BY <1>1, <1>2, HandshakeMessages, Zenon
     DEF CryptState_create_shared_key, CryptState_decrypt_node
<1>5. /\ me' = [me EXCEPT !["hub"] = N("hub", 0)]
      /\ them' = [them EXCEPT !["hub"] = N("proxy", 1)]
      /\ Send("hub", << >>, RecvMsg, "wait_final")
      /\ UNCHANGED <<skey, sent, expects>>
  BY <1>2, <1>3, <1>4, Zenon DEF CryptState_receiver_send_final, RecvMsg
<1>6. /\ chan' \in [Sides -> Seq(Messages)]
      /\ chan'["hub"] = << >>
      /\ chan'["proxy"] = IF cut = "no" THEN Append(<< >>, RecvMsg) ELSE << >>
      /\ pc' \in [Sides -> States]
      /\ pc'["hub"] = "wait_final" \/ (cut # "no" /\ pc'["hub"] = "closed")
      /\ pc'["proxy"] = pc["proxy"]
      /\ cut' = cut
      /\ result' \in [Sides -> {"none", "ok", "failed"}]
  <2>1. "wait_final" \in States /\ << >> \in Seq(Messages) /\ Typed /\ RecvMsg \in Messages
    BY HandshakeMessages DEF States, IInv
  <2> QED
    BY <1>1, <1>5, <2>1, HubSendFacts
<1>7. cut = "no" => pc["proxy"] = "wait_recv" /\ me["proxy"] = N("proxy", 0)
  BY <1>1, Zenon DEF IInv, Gone, ProxyStages
<1>8. AtMost("proxy", RecvMsg)'
  BY <1>6, FirstOne, HandshakeMessages DEF AtMost
<1>9. Typed'
  BY <1>3, <1>5, <1>6, Zenon DEF IInv, Typed, TypeOK, Messages
<1>10. Gone' /\ Counting'
  BY <1>1, <1>5, <1>6, <1>7, Zenon DEF IInv, Gone, Counting
<1>11. HubStages'
  BY <1>1, <1>3, <1>5, <1>6, Zenon DEF HubStages
<1>12. ProxyStages'
  BY <1>1, <1>5, <1>6, <1>8, Zenon DEF IInv, ProxyStages
<1>13. InStep'
  <2>1. me'["proxy"] = me["proxy"] /\ Plus(N("proxy", 0), 0) = N("proxy", 0)
    BY <1>1, <1>3, <1>5, PlusFacts, Zenon
  <2> QED
    BY <1>6, <1>7, <2>1, FirstOne, HandshakeMessages DEF InStep, KeyFor
<1> QED
  BY <1>9, <1>10, <1>11, <1>12, <1>13, Zenon DEF IInv

\* The proxy sets its session keys and sends the last message.
LEMMA InitiatorSendFinalIsGood ==
  ASSUME IInv, CryptState_initiator_send_final
  PROVE  IInv'
<1> USE SidesAre
<1>1. /\ pc["proxy"] = "wait_recv" /\ chan["proxy"] # << >>
      /\ AtMost("proxy", RecvMsg) /\ me["proxy"] = N("proxy", 0)
      /\ ~skey["hub"] /\ ~skey["proxy"]
      /\ me \in [Sides -> Nonces] /\ them \in [Sides -> Nonces]
      /\ skey \in [Sides -> BOOLEAN] /\ chan \in [Sides -> Seq(Messages)]
  BY Zenon
     DEF CryptState_initiator_send_final, Reading, IInv, Typed, TypeOK, ProxyStages, HubStages, Gone
<1>2. Tail(chan["proxy"]) = << >> /\ Head(chan["proxy"]) = RecvMsg
  BY <1>1, LastOne, Zenon DEF AtMost
<1>3. /\ Carried("proxy")[2] = N("hub", 0)
      /\ CryptState_nonce_inc(N("proxy", 0)) = N("proxy", 1)
      /\ CryptState_nonce_inc(N("hub", 0)) = N("hub", 1)
      /\ N("hub", 0) \in Nonces /\ N("hub", 1) \in Nonces /\ N("proxy", 1) \in Nonces
      /\ N("hub", 1).of = "hub" /\ N("proxy", 1).of = "proxy"
  <2>1. Carried("proxy")[2] = N("hub", 0)
    BY <1>2, HandshakeMessages, Zenon DEF Carried
  <2> QED
    BY <2>1, NonceFacts
<1>4. CryptState_decrypt_node("proxy", "shared")
  BY <1>1, <1>2, HandshakeMessages, Zenon DEF CryptState_decrypt_node
<1>5. /\ me' = [me EXCEPT !["proxy"] = N("proxy", 1)]
      /\ them' = [them EXCEPT !["proxy"] = N("hub", 1)]
      /\ skey' = [skey EXCEPT !["proxy"] = TRUE]
      /\ Send("proxy", << >>, FinalMsg, "verify")
      /\ UNCHANGED <<sent, expects>>
  BY <1>1, <1>2, <1>3, <1>4, Zenon DEF CryptState_initiator_send_final, FinalMsg
<1>6. /\ pc["hub"] \in {"wait_final", "open", "closed"}
      /\ pc["hub"] \in {"wait_final", "open"} => chan["hub"] = << >>
      /\ cut = "no" => pc["hub"] = "wait_final" /\ them["hub"] = N("proxy", 1)
      /\ pc["hub"] = "wait_final" => me["hub"] = N("hub", 0)
  BY <1>1, Zenon DEF IInv, Gone, HubStages
<1>7. /\ chan' \in [Sides -> Seq(Messages)]
      /\ chan'["proxy"] = << >>
      /\ chan'["hub"] = IF cut = "no" THEN Append(<< >>, FinalMsg) ELSE chan["hub"]
      /\ pc' \in [Sides -> States]
      /\ pc'["proxy"] = "verify" \/ (cut # "no" /\ pc'["proxy"] = "closed")
      /\ pc'["hub"] = pc["hub"]
      /\ cut' = cut
      /\ result' \in [Sides -> {"none", "ok", "failed"}]
  <2>1. "verify" \in States /\ << >> \in Seq(Messages) /\ Typed /\ FinalMsg \in Messages
    BY HandshakeMessages DEF States, IInv
  <2> QED
    BY <1>5, <1>6, <2>1, ProxySendFacts, Zenon
<1>8. cut = "no" =>
        /\ chan'["hub"] # << >> /\ Len(chan'["hub"]) = 1 /\ chan'["hub"][1] = FinalMsg
        /\ \A k \in DOMAIN chan'["hub"] : k = 1
  BY <1>7, FirstOne, HandshakeMessages, ZenonT(30)
<1>9. Typed'
  BY <1>1, <1>3, <1>5, <1>7, Zenon DEF IInv, Typed, TypeOK, Messages
<1>10. Gone'
  BY <1>1, <1>5, <1>6, <1>7 DEF IInv, Gone
<1>11. HubStages'
  BY <1>1, <1>5, <1>6, <1>7, <1>8, Zenon DEF IInv, HubStages
<1>12. ProxyStages'
  BY <1>1, <1>3, <1>5, <1>6, <1>7, Zenon DEF ProxyStages
<1>13. Counting'
  <2>1. /\ Plus(N("proxy", 1), 0) = N("proxy", 1) /\ Plus(N("hub", 0), 1) = N("hub", 0 + 1)
    BY <1>3, PlusFacts, NonceFacts
  <2>2. Len(<< >>) = 0 /\ 0 + 1 = 1
    OBVIOUS
  <2> QED
    BY <1>1, <1>5, <1>6, <1>7, <1>8, <2>1, <2>2, ZenonT(30) DEF Counting, Follows
<1>14. InStep'
  <2>1. me'["hub"] = me["hub"] /\ Plus(N("hub", 0), 0) = N("hub", 0)
    BY <1>1, <1>3, <1>5, PlusFacts, Zenon
  <2>2. pc["hub"] # "closed" /\ cut # "no" => chan'["hub"] = << >>
    BY <1>6, <1>7, Zenon
  <2> QED
    BY <1>6, <1>7, <1>8, <2>1, <2>2, HandshakeMessages DEF InStep, KeyFor
<1> QED
  BY <1>9, <1>10, <1>11, <1>12, <1>13, <1>14, Zenon DEF IInv

\* What comes behind the last message of the handshake is traffic already.
LEMMA ReceiverDoneIsGood ==
  ASSUME IInv, CryptState_receiver_done
  PROVE  IInv'
<1> USE SidesAre
<1> DEFINE c == chan["hub"]
<1>1. /\ pc["hub"] = "wait_final" /\ c # << >> /\ c \in Seq(Messages)
      /\ skey["proxy"] /\ c[1] = FinalMsg
      /\ me["hub"] = N("hub", 0) /\ them["hub"].of = "proxy"
      /\ me \in [Sides -> Nonces] /\ me["hub"] \in Nonces
      /\ skey \in [Sides -> BOOLEAN] /\ chan \in [Sides -> Seq(Messages)]
  BY Zenon DEF CryptState_receiver_done, Reading, IInv, Typed, TypeOK, HubStages
<1>2. \A k \in DOMAIN c :
        /\ c[k].nonce = Plus(me["hub"], k - 1)
        /\ k # 1 => c[k].key = "hub"
  <2> TAKE k \in DOMAIN c
  <2>1. k # 1 => KeyFor("hub", k) = "hub"
    BY <1>1, Zenon DEF KeyFor
  <2>2. InStep /\ pc["hub"] \notin {"wait_first", "closed"}
    BY <1>1, Zenon DEF IInv
  <2> QED
    BY <2>1, <2>2, InStepFacts, Zenon
<1>3. /\ Tail(c) \in Seq(Messages) /\ Head(c) = c[1]
      /\ \A k \in DOMAIN Tail(c) : k \in Nat \ {0} /\ k + 1 \in DOMAIN c /\ Tail(c)[k] = c[k + 1]
  BY <1>1, TailFacts, Zenon
<1>4. /\ \A k \in DOMAIN Tail(c) : Tail(c)[k].nonce = Plus(CryptState_nonce_inc(me["hub"]), k - 1)
      /\ Plus(CryptState_nonce_inc(me["hub"]), Len(Tail(c))) = Plus(me["hub"], Len(c))
  BY <1>1, <1>2, ReadFacts
<1>5. CryptState_nonce_inc(me["hub"]) \in Nonces /\ CryptState_nonce_inc(me["hub"]).of = "hub"
  <2>1. N("hub", 0).of = "hub" /\ CryptState_nonce_inc(N("hub", 0)) = N("hub", 0 + 1)
    BY NonceFacts, Zenon
  <2>2. CryptState_nonce_inc(me["hub"]) \in Nonces
        /\ CryptState_nonce_inc(me["hub"]).of = me["hub"].of
    BY <1>1, PlusFacts, Zenon
  <2> QED
    BY <1>1, <2>1, <2>2, Zenon
<1>6. /\ CryptState_decrypt_node("hub", "shared")
      /\ CryptState_nonce_inc(Carried("hub")[1]) = CryptState_nonce_inc(me["hub"])
  BY <1>1, <1>3, HandshakeMessages, Zenon DEF CryptState_decrypt_node, Carried
<1>7. /\ me' = [me EXCEPT !["hub"] = CryptState_nonce_inc(me["hub"])]
      /\ chan' = [chan EXCEPT !["hub"] = Tail(c)]
      /\ skey' = [skey EXCEPT !["hub"] = TRUE]
      /\ result' = [result EXCEPT !["hub"] = "ok"]
      /\ pc' = [pc EXCEPT !["hub"] = "open"]
      /\ UNCHANGED <<cut, them, sent, expects>>
  BY <1>6, Zenon DEF CryptState_receiver_done
<1>8. pc \in [Sides -> States] /\ "open" \in States
  BY Zenon DEF IInv, Typed, TypeOK, States
<1>9. /\ pc'["hub"] = "open" /\ pc'["proxy"] = pc["proxy"]
      /\ chan'["hub"] = Tail(c) /\ chan'["proxy"] = chan["proxy"]
      /\ me'["hub"] = CryptState_nonce_inc(me["hub"]) /\ me'["proxy"] = me["proxy"]
      /\ skey'["hub"] = TRUE /\ skey'["proxy"] = skey["proxy"]
  BY <1>1, <1>7, <1>8, Zenon
<1>10. Typed'
  <2>1. chan' \in [Sides -> Seq(Messages)] /\ me' \in [Sides -> Nonces]
    BY <1>1, <1>3, <1>5, <1>7, Zenon
  <2>2. pc' \in [Sides -> States] /\ skey' \in [Sides -> BOOLEAN]
    BY <1>1, <1>7, <1>8, Zenon
  <2> QED
    BY <1>7, <2>1, <2>2, Zenon DEF IInv, Typed, TypeOK, Messages
<1>11. Gone'
  BY <1>7, <1>9, ZenonT(30) DEF IInv, Gone
<1>12. HubStages'
  BY <1>1, <1>5, <1>7, <1>9, Zenon DEF HubStages
<1>13. ProxyStages'
  BY <1>1, <1>7, <1>9, Zenon DEF IInv, ProxyStages, Gone, AtMost
<1>14. Counting'
  BY <1>1, <1>4, <1>7, <1>9 DEF IInv, Counting, Follows
<1>15. InStep'
  <2> SUFFICES ASSUME NEW t \in Sides, pc'[t] \notin {"wait_first", "closed"},
                      NEW k \in DOMAIN chan'[t]
               PROVE  chan'[t][k].nonce = Plus(me'[t], k - 1) /\ chan'[t][k].key = KeyFor(t, k)'
    BY Zenon DEF InStep
  <2>1. CASE t = "hub"
    <3>1. k + 1 # 1 /\ k + 1 \in DOMAIN c /\ chan'[t][k] = c[k + 1]
      <4>1. k \in DOMAIN Tail(c) /\ chan'[t][k] = Tail(c)[k]
        BY <1>9, <2>1, Zenon
      <4>2. k \in Nat \ {0} /\ k + 1 \in DOMAIN c /\ Tail(c)[k] = c[k + 1]
        BY <1>3, <4>1, Zenon
      <4> QED
        BY <4>1, <4>2
    <3>2. KeyFor(t, k)' = "hub"
      BY <1>9, <2>1, Zenon DEF KeyFor
    <3> QED
      BY <1>2, <1>4, <1>9, <2>1, <3>1, <3>2, ZenonT(30)
  <2>2. CASE t = "proxy"
    <3>1. InStep /\ k \in DOMAIN chan[t] /\ chan'[t][k] = chan[t][k] /\ me'[t] = me[t]
          /\ pc[t] \notin {"wait_first", "closed"} /\ KeyFor(t, k)' = KeyFor(t, k)
      BY <1>9, <2>2, Zenon DEF IInv, KeyFor
    <3> QED
      BY <3>1, InStepFacts, Zenon
  <2> QED
    BY <2>1, <2>2, Zenon
<1> QED
  BY <1>10, <1>11, <1>12, <1>13, <1>14, <1>15, Zenon DEF IInv

-----------------------------------------------------------------------------
\* Every step of either side, and a cut, keeps the invariant.
LEMMA StepIsGood == IInv /\ [Next]_vars => IInv'
<1> SUFFICES ASSUME IInv, [Next]_vars PROVE IInv'
  BY Zenon
<1>1. CASE UNCHANGED vars
  <2>1. UNCHANGED <<pc, me, them, skey, result, chan, cut, sent, expects>>
    BY <1>1, Zenon DEF vars
  <2>2. Typed' /\ Gone' /\ Counting'
    BY <2>1, Zenon DEF IInv, Typed, TypeOK, Gone, Counting, Follows
  <2>3. HubStages' /\ ProxyStages'
    BY <2>1, Zenon DEF IInv, HubStages, ProxyStages, AtMost
  <2>4. InStep'
    BY <2>1 DEF IInv, InStep, KeyFor
  <2> QED
    BY <2>2, <2>3, <2>4, Zenon DEF IInv
<1>2. CASE Handshake
  BY <1>2, ReceiverStartIsGood, ReceiverSendFinalIsGood, ReceiverDoneIsGood,
     InitiatorStartIsGood, InitiatorSendFinalIsGood, VerifyIsGood, ReadFailsIsGood, Zenon
     DEF Handshake
<1>3. CASE \E s \in Sides : Peer_send(s) \/ Peer_recv(s) \/ Leave(s)
  BY <1>3, SendIsGood, RecvIsGood, LeaveIsGood, Zenon
<1>4. CASE Hangup
  BY <1>4, HangupIsGood, Zenon
<1> QED
  BY <1>1, <1>2, <1>3, <1>4, Zenon DEF Next

\* So it always holds.
LEMMA AlwaysGood == Spec => []IInv
BY InitIsGood, StepIsGood, PTL DEF Spec

\* The fields of both CryptStates, and all that is on the way, keep their types.
THEOREM TypeCorrect == Spec => []TypeOK
<1>1. IInv => TypeOK
  BY Zenon DEF IInv, Typed
<1> QED
  BY <1>1, AlwaysGood, PTL

\* CryptState_decrypt_node and the nonce comparisons of the handshake succeed
\* on every message of an honest peer, however many there are.
THEOREM NothingIsRefused == Spec => []NeverRejected
<1>1. IInv => NeverRejected
  BY SidesAre, Zenon DEF IInv, HubStages, ProxyStages, NeverRejected
<1> QED
  BY <1>1, AlwaysGood, PTL

\* The implicit nonces and the keys of the two sides agree on every message
\* on the way, however many there are and wherever the connection is cut.
THEOREM NoncesInStep == Spec => []InStep
<1>1. IInv => InStep
  BY Zenon DEF IInv
<1> QED
  BY <1>1, AlwaysGood, PTL

\* CryptState_receiver_done is the last step of the handshake: when the hub
\* has its session keys, the proxy has them and each holds the other's nonce.
THEOREM HubSetsKeysLast == Spec => []HubIsLast
<1>1. IInv => HubIsLast
  BY Zenon DEF IInv, HubStages, ProxyStages, HubIsLast
<1> QED
  BY <1>1, AlwaysGood, PTL
=============================================================================
