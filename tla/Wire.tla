-------------------------------- MODULE Wire --------------------------------
(***************************************************************************)
(* The way of a Stackish structure from the task that builds it to the     *)
(* task on the other side that takes it apart: Node_cons, Message_cons and *)
(* Node_bstr, a frame with a header and a body, Node_parse_seq on each,    *)
(* Message_decons and Node_decons, Message_destroy.                        *)
(*                                                                         *)
(* A conversation is one of three kinds.  "message": any structure of a    *)
(* bounded size, sent as the data of a Message.  "format": one of the      *)
(* structures the crypto code builds, read with the format of the function *)
(* that reads it.  "hate": a signed hate challenge, its answer, and the    *)
(* validation of the answer, which is two frames one after the other.      *)
(***************************************************************************)
EXTENDS Stackish

CONSTANTS Words, Numbers, Floats, Strings, Blobs,   \* what structures hold
          MaxNodes,      \* nodes of a freely built structure
          Levels,        \* levels of the hate challenges
          MaxHate        \* max_allowed_level of the peer that answers

\* A level above 30 shifts the bit out of an unsigned int.
ASSUME LevelsAssumption == Levels \subseteq 0..30

VARIABLES phase,       \* "build", "sent", "received", "opened" or "done"
          kind,        \* "message", "format", "challenge" or "answer"
          reads,       \* for a format: what the receiver's Node_decons is given
          cons,        \* the sender: the store, the root, and cur_node
          frame,       \* the text of the frame that was sent
          got,         \* the receiver: its store, header, body, and from
          opened,      \* what the receiver took out of the body
          hate,        \* level and the nonce the challenger is expecting
          freed        \* what Message_destroy freed, and whether it went wrong

vars == <<phase, kind, reads, cons, frame, got, opened, hate, freed>>

Item(c, v) == [c |-> c, v |-> v]
Open == Item("[", NONAME)
Close == Item("]", NONAME)

NOTHING == [ok |-> FALSE, out |-> <<>>, st |-> <<>>, data |-> NULL]
NO_HATE == [level |-> 0, left |-> 0, right |-> 0]
NOT_FREED == [nodes |-> <<>>, bad |-> FALSE]
NOT_RECEIVED == [st |-> <<>>, header |-> NULL, hbuf |-> <<>>, body |-> NULL,
                 from |-> 0]

Init ==
  /\ phase = "build"
  /\ kind = "message"
  /\ reads = <<>>
  /\ cons = ConsStart(<<>>)
  /\ frame = <<>>
  /\ got = NOT_RECEIVED
  /\ opened = NOTHING
  /\ hate = NO_HATE
  /\ freed = NOT_FREED

-----------------------------------------------------------------------------
(* The formats of the crypto code.  Each argument goes out under a name; the *)
(* type of the argument is the format character.                             *)

Bytes(name) == <<Lexeme("word", name), Char("'"), Char("[")>>

Argument ==
  [left |-> 11, right |-> 12, their_left |-> 13, their_right |-> 14,
   key |-> Bytes("key"), session |-> Bytes("session"), name |-> Bytes("name"),
   payload |-> Bytes("payload"), tag |-> Bytes("tag")]

FormatChar(name) ==
  CASE name \in {"left", "right", "their_left", "their_right"} -> "n"
    [] name = "name" -> "s"
    [] OTHER -> "b"

\* A group of the given word: what Node_cons pushes, and what the Node_decons
\* of the other side pops.
Pair(word, pushed, popped) ==
  [cons |-> <<Open>>
            \o [i \in DOMAIN pushed |-> Item(FormatChar(pushed[i]), Argument[pushed[i]])]
            \o <<Item("w", word)>>,
   decons |-> <<Open>>
              \o [i \in DOMAIN popped |-> Item(FormatChar(popped[i]), popped[i])]
              \o <<Item("w", word)>>]

\* receiver_start, the two structures of initiator_start, receiver_send_final
\* and initiator_send_final, with the functions that read them.
HandshakeFormats_Swapped ==
  { Pair("init", <<"name", "session", "right", "left">>,
                 <<"right", "left", "session", "name">>) }

HandshakeFormats ==
  { Pair("header", <<"right", "left", "key">>, <<"key", "left", "right">>),
    Pair("header", <<"key">>, <<"key">>),
    Pair("init", <<"name", "session", "right", "left">>,
                 <<"left", "right", "session", "name">>),
    Pair("recv", <<"name", "session", "their_right", "their_left", "right", "left">>,
                 <<"left", "right", "their_left", "their_right", "session", "name">>),
    Pair("init", <<"right", "left">>, <<"left", "right">>) }

\* encrypt_node and decrypt_node.
EnvelopeFormats == { Pair("env", <<"payload", "tag">>, <<"tag", "payload">>) }

Formats == HandshakeFormats \cup EnvelopeFormats

-----------------------------------------------------------------------------
(* Signatures and hate challenges                                            *)

Hash(x) == <<Lexeme("hash", x)>>

CryptState_sign_node(st, input) ==
  LET payload == Node_bstr(st, input, TRUE)
  IN  Node_cons(st, <<Open, Open, Item("b", payload), Item("b", Hash(payload)),
                      Item("b", Bytes("signature")), Item("w", "message"),
                      Open, Item("b", Bytes("key")), Item("b", Bytes("name")),
                      Item("w", "identity"), Item("w", "signed")>>)

\* The signed structure, parsed again from the payload, or NULL.
CryptState_verify_signature(st, input) ==
  LET d == Node_decons(st, input,
             <<Open, Open, Item("b", "name"), Item("b", "key"), Item("w", "identity"),
               Open, Item("b", "signature"), Item("b", "hash"), Item("b", "payload"),
               Item("w", "message"), Item("w", "signed")>>)
      parser == Node_parse_seq(st, d.out[5][2], 1)
  IN  IF d.ok /\ d.out[1][2] = Bytes("name")
      THEN [st |-> parser.st, root |-> Parsed(parser)]
      ELSE [st |-> st, root |-> NULL]

\* The right side of the nonce is a random number modulo 1 << (level + 1),
\* which LevelsAssumption keeps within an unsigned int.
LevelMax(level) == 2 ^ (level + 1)

ChallengeText(level, left, right) ==
  LET msg == Node_cons(<<>>, <<Open, Item("n", level), Item("n", 0), Item("n", left),
                               Item("b", Hash(<<left, right>>)), Item("w", "challenge")>>)
  IN  CryptState_sign_node(msg.st, msg.root)

\* How many numbers the peer that answers tries: level <<= level + 1.
Tries_Short(level) == 2 ^ level

Tries(level) == level * 2 ^ (level + 1)

NOT_FOUND == -1

FindRight(hash, left, tries) ==
  LET found == { r \in 0..(tries - 1) : Hash(<<left, r>>) = hash }
  IN  IF found = {} THEN NOT_FOUND ELSE CHOOSE r \in found : \A q \in found : r <= q

\* The answer, signed, or a root of NULL.
CryptState_answer_hate_challenge(st, body) ==
  LET challenge == CryptState_verify_signature(st, body)
      d == Node_decons(challenge.st, challenge.root,
             <<Open, Item("b", "hash"), Item("n", "left"), Item("n", "right"),
               Item("n", "level"), Item("w", "challenge")>>)
      left == d.out[2][2]
      level == d.out[4][2]
      right == IF /\ challenge.root # NULL /\ d.ok
                  /\ d.out[3][2] = 0
                  /\ level <= MaxHate
               THEN FindRight(d.out[1][2], left, Tries(level))
               ELSE NOT_FOUND
      answer == Node_cons(<<>>, <<Open, Item("n", left), Item("n", right),
                                  Item("w", "answer")>>)
  IN  IF right = NOT_FOUND THEN ConsStart(<<>>)
      ELSE CryptState_sign_node(answer.st, answer.root)

CryptState_validate_hate_challenge(st, body, expecting) ==
  LET answer == CryptState_verify_signature(st, body)
      d == Node_decons(answer.st, answer.root,
             <<Open, Item("n", "left"), Item("n", "right"), Item("w", "answer")>>)
  IN  /\ answer.root # NULL
      /\ d.ok
      /\ d.out[2][2] = expecting.left
      /\ d.out[1][2] = expecting.right

-----------------------------------------------------------------------------
(* The sender                                                                *)

MSGID == 7

\* The format characters a caller of Node_cons may give next: a group must be
\* open for anything but the first '[', and '@' needs a child to name.
FreeItems ==
  LET cur == cons.cur
      room == Len(cons.st) < MaxNodes
      newest == cons.st[cur].child
  IN  IF cur = NULL THEN IF cons.root = NULL THEN {Open} ELSE {}
      ELSE (IF room
            THEN {Open} \cup { Item("n", v) : v \in Numbers }
                        \cup { Item("f", v) : v \in Floats }
                        \cup { Item("s", v) : v \in Strings }
                        \cup { Item("b", v) : v \in Blobs }
            ELSE {})
           \cup {Close} \cup { Item("w", v) : v \in Words }
           \cup (IF newest # NULL /\ cons.st[newest].name = NONAME
                 THEN { Item("@", v) : v \in Attrs } ELSE {})

\* One more character of the format of a freely built structure.
Build ==
  /\ phase = "build" /\ kind = "message"
  /\ \E item \in FreeItems : cons' = Node_cons_step(cons, item)
  /\ UNCHANGED <<phase, kind, reads, frame, got, opened, hate, freed>>

\* One of the structures of the crypto code.
BuildFormat ==
  /\ phase = "build" /\ cons = ConsStart(<<>>)
  /\ \E f \in Formats : reads' = f.decons /\ cons' = Node_cons(<<>>, f.cons)
  /\ kind' = "format"
  /\ UNCHANGED <<phase, frame, got, opened, hate, freed>>

CryptState_generate_hate_challenge ==
  /\ phase = "build" /\ cons = ConsStart(<<>>)
  /\ kind' = "challenge"
  /\ \E level \in Levels, left \in Numbers : \E right \in 0..(LevelMax(level) - 1) :
       /\ LevelMax(level) > 0
       /\ cons' = ChallengeText(level, left, right)
       /\ hate' = [level |-> level, left |-> left, right |-> right]
  /\ UNCHANGED <<phase, reads, frame, got, opened, freed>>

Message_cons_header(msgid) ==
  Node_cons(<<>>, <<Open, Item("n", msgid), Item("w", "header")>>)

\* The body that is sent: a message wraps the structure as its only child.
Message_cons(st, data) == Node_cons(st, <<Open, Item("G", data), Item("w", "msg")>>)

HeaderText ==
  LET hdr == Message_cons_header(MSGID) IN Node_bstr(hdr.st, hdr.root, TRUE)

BodyText ==
  LET body == IF kind = "message" THEN Message_cons(cons.st, cons.root) ELSE cons
  IN  Node_bstr(body.st, body.root, TRUE)

FrameSource_send ==
  /\ phase = "build" /\ cons.root # NULL /\ cons.cur = NULL
  /\ frame' = HeaderText \o BodyText
  /\ phase' = "sent"
  /\ UNCHANGED <<kind, reads, cons, got, opened, hate, freed>>

-----------------------------------------------------------------------------
(* The receiver                                                              *)

FrameSource_recv ==
  /\ phase = "sent"
  /\ LET first == Node_parse_seq(<<>>, frame, 1)
         from == NextFrom(first, frame)
         second == Node_parse_seq(first.st, frame, from)
     IN  got' = [st |-> second.st, header |-> Parsed(first),
                 hbuf |-> SubSeq(frame, 1, from - 1),
                 body |-> Parsed(second), from |-> NextFrom(second, frame)]
  /\ phase' = "received"
  /\ UNCHANGED <<kind, reads, cons, frame, opened, hate, freed>>

\* Takes the body for its data.
Message_decons_Unopened(st, hdr, body) ==
  LET h == Node_decons(st, hdr, <<Open, Item("n", "msgid"), Item("w", "header")>>)
  IN  [ok |-> h.ok, out |-> h.out, st |-> st, data |-> body]

Message_decons(st, hdr, body) ==
  LET h == Node_decons(st, hdr, <<Open, Item("n", "msgid"), Item("w", "header")>>)
      b == Node_decons(st, body, <<Open, Item("G", "data"), Item(".", NONAME)>>)
      ok == st[body].name # NONAME /\ h.ok /\ b.ok
  IN  [ok |-> ok, out |-> h.out, st |-> st,
       data |-> IF ok THEN b.out[1][2] ELSE NULL]

\* The body is a message, or a structure the crypto code reads by its format.
OpenBody ==
  /\ phase = "received" /\ kind \notin {"challenge", "answer"}
  /\ opened' = IF kind = "message"
               THEN Message_decons(got.st, got.header, got.body)
               ELSE LET d == Node_decons(got.st, got.body, reads)
                    IN  [ok |-> d.ok, out |-> d.out, st |-> got.st, data |-> got.body]
  /\ phase' = "opened"
  /\ UNCHANGED <<kind, reads, cons, frame, got, hate, freed>>

\* The peer that was challenged becomes the sender of the answer, if it has one.
Answer ==
  /\ phase = "received" /\ kind = "challenge"
  /\ kind' = "answer"
  /\ cons' = CryptState_answer_hate_challenge(got.st, got.body)
  /\ phase' = IF cons'.root = NULL THEN "refused" ELSE "build"
  /\ UNCHANGED <<reads, frame, got, opened, hate, freed>>

Validate ==
  /\ phase = "received" /\ kind = "answer"
  /\ opened' = [NOTHING EXCEPT
                  !.ok = CryptState_validate_hate_challenge(got.st, got.body, hate)]
  /\ phase' = "opened"
  /\ UNCHANGED <<kind, reads, cons, frame, got, hate, freed>>

\* Message_destroy, or the two Node_destroy of whoever received the frame.
Destroy ==
  /\ phase = "opened"
  /\ LET hdr == Node_destroy(got.st, got.header)
         body == Node_destroy(got.st, got.body)
     IN  freed' = [nodes |-> hdr.freed \o body.freed, bad |-> hdr.bad \/ body.bad]
  /\ phase' = "done"
  /\ UNCHANGED <<kind, reads, cons, frame, got, opened, hate>>

Next ==
  \/ Build \/ BuildFormat \/ CryptState_generate_hate_challenge
  \/ FrameSource_send \/ FrameSource_recv
  \/ OpenBody \/ Answer \/ Validate \/ Destroy

Spec == Init /\ [][Next]_vars

-----------------------------------------------------------------------------
(* Properties                                                                *)

Phases == {"build", "sent", "received", "opened", "done", "refused"}
Received == phase \in {"received", "opened", "done"}

\* Type invariant: the phase and the kind of conversation, and stores in which
\* every link is NULL or a node of the same store.
TypeOK ==
  /\ phase \in Phases
  /\ kind \in {"message", "format", "challenge", "answer"}
  /\ freed.bad \in BOOLEAN
  /\ \A st \in {cons.st, got.st} : \A i \in DOMAIN st :
       {st[i].parent, st[i].sibling, st[i].child} \subseteq 0..Len(st)

RECURSIVE Canonical(_)
\* The same trees with every float as "%f" prints it.
Canonical(trees) ==
  [i \in DOMAIN trees |->
     [trees[i] EXCEPT !.value = IF trees[i].type = "float" THEN PrintedFloat(@) ELSE @,
                      !.children = Canonical(@)]]

RECURSIVE Siblings(_, _)
Siblings(st, d) == IF d = NULL THEN {} ELSE {d} \cup Siblings(st, st[d].sibling)

SentBody == IF kind = "message" THEN Message_cons(cons.st, cons.root) ELSE cons

\* Node_parse_seq gives back the structure that Node_bstr wrote: the nodes in
\* their order, their names, attributes and values, whatever bytes a blob
\* holds, and floats to the six digits of "%f".  What it gives back is printed
\* as the same text again, the canonical form node.h speaks of.  A node's
\* parent is the group whose list of children it is on, and only the root has
\* none: Node_decons climbs these links after every group.  The frame is read
\* to its last character, and the header the receiver carves out of it with
\* bmidstr is, byte for byte, the one the sender authenticated: decrypt_node is
\* given these bytes.
RoundTrip ==
  Received =>
    /\ got.from = Len(frame) + 1 /\ got.hbuf = HeaderText
    /\ got.body # NULL
    /\ Content(got.st, got.body) = Canonical(Content(SentBody.st, SentBody.root))
    /\ HeaderText \o Node_bstr(got.st, got.body, TRUE) = frame
    /\ got.st[got.header].parent = NULL /\ got.st[got.body].parent = NULL
    /\ \A g \in DOMAIN got.st :
         \A d \in Siblings(got.st, got.st[g].child) : got.st[d].parent = g

RECURSIVE PopOrder(_), PopAll(_)
\* The format that takes a tree apart, "reversed from the cons format used"
\* (node.h), with the value each argument should receive.
PopOrder(t) ==
  (IF t.name \in Attrs THEN <<Item("@", t.name)>> ELSE <<>>)
  \o IF t.type = "group"
     THEN <<Open>> \o PopAll(t.children)
          \o <<IF t.name \in Words THEN Item("w", t.name) ELSE Close>>
     ELSE <<Item(CHOOSE c \in DOMAIN DataTypes : DataTypes[c] = t.type, t.value)>>
PopAll(trees) == IF trees = <<>> THEN <<>>
                 ELSE PopOrder(Last(trees)) \o PopAll(Front(trees))

RECURSIVE HasEmptyGroup(_)
HasEmptyGroup(t) == t.type = "group" /\ \/ t.children = <<>>
                                        \/ \E i \in DOMAIN t.children :
                                             HasEmptyGroup(t.children[i])

\* Message_decons gives the receiver the message id and the data that went
\* into Message_cons, and Node_decons, given the reversed format, takes every
\* value of the data out into the argument meant for it, through attributes
\* and nested groups.  (A format cannot enter an empty group.)
MessageArrives ==
  (phase = "opened" /\ kind = "message") =>
    LET sent == Canonical(Content(cons.st, cons.root))[1]
        d == Node_decons(opened.st, opened.data, PopOrder(sent))
    IN  /\ opened.ok
        /\ opened.out = <<<<"msgid", MSGID>>>>
        /\ Content(opened.st, opened.data) = <<sent>>
        /\ ~HasEmptyGroup(sent) => d.ok /\ \A i \in DOMAIN d.out : d.out[i][1] = d.out[i][2]

\* Each structure of the handshake and the envelope is read by the format of
\* its reader: every nonce half, key, session, name and tag arrives under the
\* name it was sent.
FormatsAgree ==
  (phase = "opened" /\ kind = "format") =>
    /\ opened.ok
    /\ \A i \in DOMAIN opened.out : opened.out[i][2] = Argument[opened.out[i][1]]

\* Every challenge of level 1 to max_allowed_level is answered, with the
\* answer the challenger expects, and none above max_allowed_level is.
\* Nothing is claimed of level 0: its secret is 0 or 1, but the loop of
\* CryptState_answer_hate_challenge then tries no number at all.
HateIsAnswered ==
  /\ phase = "refused" => hate.level \notin 1..MaxHate
  /\ (kind = "answer" /\ phase # "refused") => hate.level <= MaxHate
  /\ (kind = "answer" /\ phase = "opened") => opened.ok

\* Node_destroy frees every node of the header and of the body exactly once,
\* and reads none that is already freed.  The array in which the walk keeps
\* its path is just long enough: with a MAX_TREE_DEEP of one less the largest
\* structures of the run do not fit.
FreedOnce ==
  phase = "done" =>
    /\ ~freed.bad
    /\ IsInjective(freed.nodes)
    /\ ToSet(freed.nodes) = DOMAIN got.st

=============================================================================
