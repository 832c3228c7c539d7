------------------------------- MODULE Session -------------------------------
(***************************************************************************)
(* The encrypted session between the hub (the receiver of the handshake,   *)
(* protocol/peer.c) and a client's proxy (the initiator, client/proxy.c),  *)
(* over one TCP connection; both use protocol/crypto.c:                    *)
(*                                                                         *)
(*    hub -> proxy   N, PubR                                               *)
(*    proxy -> hub   PubI, E(I, Kir, Ni)     under nonce N                 *)
(*    hub -> proxy   E(R, Kri, Ni, Nr)       under nonce Ni                *)
(*    proxy -> hub   E(Nr)                   under nonce Nr                *)
(*                                                                         *)
(* The nonces are not sent along afterwards: each side increments its copy *)
(* once per message, and a message decrypts only when the copies agree.    *)
(*                                                                         *)
(* Keys and fresh random nonces are symbols, and decryption succeeds       *)
(* exactly when the key and the nonce are the ones of the encryption.  The *)
(* connection is a reliable queue in each direction until it is cut, when  *)
(* the tail of what is on the way may be lost.                             *)
(***************************************************************************)
EXTENDS Integers, Sequences

CONSTANT MaxSent   \* bound: messages each side sends after the handshake

ASSUME MaxSentAssumption == MaxSent \in Nat

Sides == {"hub", "proxy"}

Other(s) == IF s = "hub" THEN "proxy" ELSE "hub"

(***************************************************************************)
(* "first" is the public nonce N of the first message, "hub" is Nr and     *)
(* "proxy" is Ni.                                                          *)
(***************************************************************************)
Nonces == [of : {"unset", "first", "hub", "proxy"}, n : Nat]

CryptState_create_nonce(of) == [of |-> of, n |-> 0]

\* Counting down.
CryptState_nonce_inc_Down(x) == [x EXCEPT !.n = @ - 1]

CryptState_nonce_inc(x) == [x EXCEPT !.n = @ + 1]

Keys == {"clear", "shared", "hub", "proxy", "unset"}

Kinds == {"start", "init", "recv", "final", "data"}

Message(key, nonce, kind, carries) ==
  [key |-> key, nonce |-> nonce, kind |-> kind, carries |-> carries]

VARIABLES
  pc,       \* where a side is, see States
  me,       \* state->me.nonce of each side
  them,     \* state->them.nonce
  skey,     \* whether CryptState_finalize_session has set the session keys
  result,   \* what establishing the session returned, or "none"
  chan,     \* chan[s]: what is on its way to s
  cut,      \* who ended the connection: "no", "network" or a side
  sent,     \* sent[s]: messages s sent after the handshake
  expects   \* whether the hub's key and name are those the proxy expects

vars == <<pc, me, them, skey, result, chan, cut, sent, expects>>

States == {"start", "wait_first", "wait_init", "wait_recv", "wait_final",
           "verify", "open", "closed", "rejected"}

Init ==
  /\ pc = [s \in Sides |-> IF s = "hub" THEN "start" ELSE "wait_first"]
  /\ me = [s \in Sides |-> CryptState_create_nonce("unset")]
  /\ them = [s \in Sides |-> CryptState_create_nonce("unset")]
  /\ skey = [s \in Sides |-> FALSE]
  /\ result = [s \in Sides |-> "none"]
  /\ chan = [s \in Sides |-> << >>]
  /\ cut = "no"
  /\ sent = [s \in Sides |-> 0]
  /\ expects \in {"match", "other key", "other name"}

-----------------------------------------------------------------------------
(***************************************************************************)
(* CryptState_encrypt_node uses them.nonce, CryptState_decrypt_node uses   *)
(* me.nonce; both increment it, decryption even if the tags differ.        *)
(***************************************************************************)
CryptState_decrypt_node(s, key) ==
  Head(chan[s]).key = key /\ Head(chan[s]).nonce = me[s]

\* Proxy_confirm_key compares the hub's key with the expected one; the hub's
\* ConnectionState_confirm_key accepts every key.
Proxy_confirm_key == expects # "other key"

CryptState_create_shared_key(s) == s = "hub" \/ Proxy_confirm_key

\* The key the other side decrypts with; it is set by finalize_session.
TheirKey(s) == IF skey[s] THEN Other(s) ELSE "unset"
MyKey(s) == IF skey[s] THEN s ELSE "unset"

\* A side gives up and closes its socket.
Close(s, why) ==
  /\ pc' = [pc EXCEPT ![s] = why]
  /\ cut' = IF cut = "no" THEN s ELSE cut

\* Establishing returns 0, or a later send fails; the connection is closed.
Failed(s, why) ==
  /\ Close(s, why)
  /\ result' = [result EXCEPT ![s] = IF @ = "none" THEN "failed" ELSE @]

(***************************************************************************)
(* FrameSource_send and write_header_node.  On a connection that was cut a *)
(* write may still be accepted and go nowhere, or fail.                    *)
(***************************************************************************)
Send(s, in, m, next) ==
  \/ /\ chan' = [chan EXCEPT ![s] = in,
                             ![Other(s)] = IF cut = "no" THEN Append(@, m) ELSE @]
     /\ pc' = [pc EXCEPT ![s] = next]
     /\ UNCHANGED <<cut, result>>
  \/ /\ cut # "no"
     /\ chan' = [chan EXCEPT ![s] = in]
     /\ Failed(s, "closed")

Reading(s, state) == pc[s] = state /\ chan[s] # << >>

\* A read returns nothing: the connection is gone and so is all that was sent.
AtEnd(s, state) == pc[s] = state /\ chan[s] = << >> /\ cut # "no"

Carried(s) == Head(chan[s]).carries

\* A handshake message that does not decrypt: establishing returns 0.
Reject(s) ==
  /\ me' = [me EXCEPT ![s] = CryptState_nonce_inc(@)]
  /\ chan' = [chan EXCEPT ![s] = Tail(@)]
  /\ Failed(s, "rejected")
  /\ UNCHANGED <<them, skey>>

-----------------------------------------------------------------------------
(***************************************************************************)
(* The hub: Peer_establish_receiver.                                       *)
(***************************************************************************)
CryptState_receiver_start ==
  LET n == CryptState_create_nonce("first") IN
  /\ pc["hub"] = "start"
  /\ me' = [me EXCEPT !["hub"] = n]
  /\ Send("hub", chan["hub"],
          Message("clear", CryptState_create_nonce("unset"), "start", <<n>>),
          "wait_init")
  /\ UNCHANGED <<them, skey, sent, expects>>

\* Setting the session keys before the proxy has confirmed them.
CryptState_receiver_send_final_Early ==
  LET theirs == Carried("hub")[1]
      mine   == CryptState_create_nonce("hub")
  IN
  /\ Reading("hub", "wait_init")
  /\ me' = [me EXCEPT !["hub"] = mine]
  /\ them' = [them EXCEPT !["hub"] = CryptState_nonce_inc(theirs)]
  /\ skey' = [skey EXCEPT !["hub"] = TRUE]
  /\ Send("hub", Tail(chan["hub"]),
          Message("shared", theirs, "recv", <<theirs, mine>>), "wait_final")
  /\ UNCHANGED <<sent, expects>>

(***************************************************************************)
(* CryptState_receiver_process_response learns Ni.  receiver_send_final    *)
(* then replaces the hub's nonce by a fresh one, Nr, and returns both      *)
(* under Ni.                                                               *)
(***************************************************************************)
CryptState_receiver_send_final ==
  LET theirs == Carried("hub")[1]
      mine   == CryptState_create_nonce("hub")
  IN
  /\ Reading("hub", "wait_init")
  /\ IF /\ CryptState_create_shared_key("hub")
        /\ CryptState_decrypt_node("hub", "shared")
     THEN /\ me' = [me EXCEPT !["hub"] = mine]
          /\ them' = [them EXCEPT !["hub"] = CryptState_nonce_inc(theirs)]
          /\ Send("hub", Tail(chan["hub"]),
                  Message("shared", theirs, "recv", <<theirs, mine>>), "wait_final")
          /\ UNCHANGED skey
     ELSE Reject("hub")
  /\ UNCHANGED <<sent, expects>>

\* Comparing the returned nonce without counting its use.
CryptState_receiver_done_NoInc ==
  LET n == CryptState_nonce_inc(me["hub"]) IN
  /\ Reading("hub", "wait_final")
  /\ IF Carried("hub")[1] = n
     THEN /\ me' = [me EXCEPT !["hub"] = n]
          /\ chan' = [chan EXCEPT !["hub"] = Tail(@)]
          /\ skey' = [skey EXCEPT !["hub"] = TRUE]
          /\ result' = [result EXCEPT !["hub"] = "ok"]
          /\ pc' = [pc EXCEPT !["hub"] = "open"]
          /\ UNCHANGED <<cut, them>>
     ELSE Reject("hub")
  /\ UNCHANGED <<sent, expects>>

(***************************************************************************)
(* The nonce that comes back is compared with the hub's own, which the     *)
(* decryption has just incremented.                                        *)
(***************************************************************************)
CryptState_receiver_done ==
  LET n == CryptState_nonce_inc(me["hub"]) IN
  /\ Reading("hub", "wait_final")
  /\ IF /\ CryptState_decrypt_node("hub", "shared")
        /\ CryptState_nonce_inc(Carried("hub")[1]) = n
     THEN /\ me' = [me EXCEPT !["hub"] = n]
          /\ chan' = [chan EXCEPT !["hub"] = Tail(@)]
          /\ skey' = [skey EXCEPT !["hub"] = TRUE]
          /\ result' = [result EXCEPT !["hub"] = "ok"]
          /\ pc' = [pc EXCEPT !["hub"] = "open"]
          /\ UNCHANGED <<cut, them>>
     ELSE Reject("hub")
  /\ UNCHANGED <<sent, expects>>

-----------------------------------------------------------------------------
(***************************************************************************)
(* The proxy: Proxy_connect.  CryptState_initiator_start takes the hub's   *)
(* nonce from the clear and asks Proxy_confirm_key about the hub's key.    *)
(***************************************************************************)
CryptState_initiator_start ==
  LET theirs == Carried("proxy")[1]
      mine   == CryptState_create_nonce("proxy")
  IN
  /\ Reading("proxy", "wait_first")
  /\ IF CryptState_create_shared_key("proxy")
     THEN /\ me' = [me EXCEPT !["proxy"] = mine]
          /\ them' = [them EXCEPT !["proxy"] = CryptState_nonce_inc(theirs)]
          /\ Send("proxy", Tail(chan["proxy"]),
                  Message("shared", theirs, "init", <<mine>>), "wait_recv")
     ELSE /\ them' = [them EXCEPT !["proxy"] = theirs]
          /\ chan' = [chan EXCEPT !["proxy"] = Tail(@)]
          /\ Failed("proxy", "closed")
          /\ UNCHANGED me
  /\ UNCHANGED <<skey, sent, expects>>

(***************************************************************************)
(* CryptState_initiator_process_response compares the returned Ni, then    *)
(* initiator_send_final answers and sets the session keys.  When the       *)
(* comparison fails the value returned is still the 1 of Node_decons.      *)
(* Proxy_final_verify, which compares the names, does not change what      *)
(* Proxy_connect returns, so it leaves no trace here.                      *)
(***************************************************************************)
CryptState_initiator_send_final ==
  LET theirs == Carried("proxy")[2]
      mine   == CryptState_nonce_inc(me["proxy"])
  IN
  /\ Reading("proxy", "wait_recv")
  /\ IF CryptState_decrypt_node("proxy", "shared")
     THEN /\ me' = [me EXCEPT !["proxy"] = mine]
          /\ them' = [them EXCEPT !["proxy"] = CryptState_nonce_inc(theirs)]
          /\ skey' = [skey EXCEPT !["proxy"] = TRUE]
          /\ Send("proxy", Tail(chan["proxy"]),
                  Message("shared", theirs, "final", <<theirs>>), "verify")
     ELSE Reject("proxy")
  /\ UNCHANGED <<sent, expects>>

\* "remember, rc>0 is how we make sure that everything went ok": rc still is
\* what the last write returned.
Proxy_final_verify ==
  /\ pc["proxy"] = "verify"
  /\ pc' = [pc EXCEPT !["proxy"] = "open"]
  /\ result' = [result EXCEPT !["proxy"] = "ok"]
  /\ UNCHANGED <<me, them, skey, chan, cut, sent, expects>>

-----------------------------------------------------------------------------
\* Trying again when a read returns nothing.
EstablishReadFails_Retries(s) == FALSE /\ UNCHANGED vars

(***************************************************************************)
(* Reads that find the connection closed.  The hub fails when it waits for *)
(* the first answer, the proxy when it waits for the first message.  Later *)
(* in the handshake both return the 1 of the call before: rc was not reset.*)
(***************************************************************************)
EstablishReadFails(s) ==
  /\ \/ \E state \in {"wait_init", "wait_first"} :
          AtEnd(s, state) /\ Failed(s, "closed")
     \/ \E state \in {"wait_final", "wait_recv"} :
          /\ AtEnd(s, state)
          /\ pc' = [pc EXCEPT ![s] = "open"]
          /\ result' = [result EXCEPT ![s] = "ok"]
          /\ UNCHANGED cut
  /\ UNCHANGED <<me, them, skey, chan, sent, expects>>

-----------------------------------------------------------------------------
\* Encrypting twice under the same nonce.
Peer_send_NoInc(s) ==
  /\ pc[s] = "open"
  /\ sent[s] < MaxSent
  /\ sent' = [sent EXCEPT ![s] = @ + 1]
  /\ Send(s, chan[s], Message(TheirKey(s), them[s], "data", << >>), "open")
  /\ UNCHANGED <<me, them, skey, expects>>

(***************************************************************************)
(* Traffic: Peer_send and Proxy_hub_send, Peer_recv and Proxy_hub_recv.    *)
(***************************************************************************)
Peer_send(s) ==
  /\ pc[s] = "open"
  /\ sent[s] < MaxSent
  /\ sent' = [sent EXCEPT ![s] = @ + 1]
  /\ them' = [them EXCEPT ![s] = CryptState_nonce_inc(@)]
  /\ Send(s, chan[s], Message(TheirKey(s), them[s], "data", << >>), "open")
  /\ UNCHANGED <<me, skey, expects>>

Peer_recv(s) ==
  /\ Reading(s, "open")
  /\ me' = [me EXCEPT ![s] = CryptState_nonce_inc(@)]
  /\ chan' = [chan EXCEPT ![s] = Tail(@)]
  /\ IF CryptState_decrypt_node(s, MyKey(s))
     THEN UNCHANGED <<pc, cut>>
     ELSE Close(s, "rejected")
  /\ UNCHANGED <<them, skey, result, sent, expects>>

\* A side leaves, of its own accord or because the connection has ended.
Leave(s) ==
  /\ pc[s] = "open"
  /\ Close(s, "closed")
  /\ UNCHANGED <<me, them, skey, result, chan, sent, expects>>

\* The network, or a process that dies, cuts the connection; or closing it
\* with data unread resets it.
Hangup ==
  /\ cut # "network"
  /\ cut' = "network"
  /\ \E h \in 0 .. Len(chan["hub"]), p \in 0 .. Len(chan["proxy"]) :
       chan' = [s \in Sides |-> SubSeq(chan[s], 1, IF s = "hub" THEN h ELSE p)]
  /\ UNCHANGED <<pc, me, them, skey, result, sent, expects>>

Handshake ==
  \/ CryptState_receiver_start
  \/ CryptState_receiver_send_final
  \/ CryptState_receiver_done
  \/ CryptState_initiator_start
  \/ CryptState_initiator_send_final
  \/ Proxy_final_verify
  \/ \E s \in Sides : EstablishReadFails(s)

Next ==
  \/ Handshake
  \/ \E s \in Sides : Peer_send(s) \/ Peer_recv(s) \/ Leave(s)
  \/ Hangup

\* A side that can go on with the handshake does.
Spec == Init /\ [][Next]_vars /\ WF_vars(Handshake)

-----------------------------------------------------------------------------
(***************************************************************************)
(* The type invariant.                                                     *)
(***************************************************************************)
TypeOK ==
  /\ pc \in [Sides -> States]
  /\ me \in [Sides -> Nonces] /\ them \in [Sides -> Nonces]
  /\ skey \in [Sides -> BOOLEAN]
  /\ result \in [Sides -> {"none", "ok", "failed"}]
  /\ cut \in {"no", "network"} \cup Sides
  /\ sent \in [Sides -> 0 .. MaxSent]
  /\ expects \in {"match", "other key", "other name"}
  /\ \A s \in Sides :
       chan[s] \in Seq([key : Keys, nonce : Nonces, kind : Kinds, carries : Seq(Nonces)])

(***************************************************************************)
(* No message of an honest peer is ever refused, in the handshake or       *)
(* later: CryptState_decrypt_node and the nonce comparisons succeed on     *)
(* whatever arrives, although nothing resynchronises the nonces and the    *)
(* proxy may send before the hub has read its last handshake message.      *)
(***************************************************************************)
NeverRejected == \A s \in Sides : pc[s] # "rejected"

(***************************************************************************)
(* The nonces move in step: the k-th message on its way to a side was      *)
(* encrypted under the nonce, and with the key, that the side will have    *)
(* when it has read the k-1 messages before it.                            *)
(***************************************************************************)
Plus(nonce, k) == [nonce EXCEPT !.n = @ + k]

KeyFor(s, k) ==
  IF pc[s] \in {"wait_init", "wait_recv"} \/ (pc[s] = "wait_final" /\ k = 1)
  THEN "shared" ELSE s

InStep ==
  \A s \in Sides : pc[s] \notin {"wait_first", "closed"} =>
    \A k \in DOMAIN chan[s] :
      /\ chan[s][k].nonce = Plus(me[s], k-1)
      /\ chan[s][k].key = KeyFor(s, k)

(***************************************************************************)
(* The hub has session keys only if the proxy has them, and by then the    *)
(* two sides hold each other's nonces: CryptState_receiver_done is the     *)
(* last step of the handshake.                                             *)
(***************************************************************************)
HubIsLast ==
  skey["hub"] =>
    /\ skey["proxy"]
    /\ me["hub"].of = "hub" /\ them["proxy"].of = "hub"
    /\ me["proxy"].of = "proxy" /\ them["hub"].of = "proxy"

(***************************************************************************)
(* A proxy that accepts the hub's key gets its session, unless the network *)
(* loses the connection; then nobody keeps waiting in the handshake.       *)
(***************************************************************************)
Establishes ==
  /\ expects # "other key" => <>(cut = "network" \/ \A s \in Sides : skey[s])
  /\ <>(\A s \in Sides : pc[s] \in {"open", "closed"})

(***************************************************************************)
(* "remember, rc>0 is how we make sure that everything went ok during      *)
(* processing" (Proxy_connect): a proxy that reports success has session   *)
(* keys and has verified the hub's name.                                   *)
(***************************************************************************)
SuccessMeansEstablished ==
  result["proxy"] = "ok" => skey["proxy"] /\ expects = "match"
=============================================================================
