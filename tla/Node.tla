-------------------------------- MODULE Node --------------------------------
(***************************************************************************)
(* The Stackish tree of src/stackish/node.c.                               *)
(*                                                                         *)
(* Memory is a store: a sequence of node records in which a node is named  *)
(* by its index and NULL is 0.  The three links of struct Node are kept as *)
(* they are in C, since the code walks them: a new child goes to the FRONT *)
(* of its parent's list, so the links run from the newest to the oldest.   *)
(*                                                                         *)
(* Text is a sequence of characters [k, v].  Brackets, blanks, newlines    *)
(* and quotes are characters of their own; the digits of one number or     *)
(* float, the letters of one word or attribute, and the "'12:" before a    *)
(* blob are one character each, that carries its value.                    *)
(***************************************************************************)
EXTENDS Integers, Sequences, SequencesExt

NULL == 0
NONAME == ""

CONSTANTS Attrs,           \* the names that start with '@'
          MAX_TREE_DEEP    \* how long a path Node_destroy can hold

Char(k) == [k |-> k, v |-> 0]
Lexeme(k, v) == [k |-> k, v |-> v]
Sep == Char(" ")

-----------------------------------------------------------------------------
(* Building                                                                 *)

\* LIST_ADD: elem becomes the first of the children of parent.
LIST_ADD(st, parent, elem) ==
  [st EXCEPT ![elem].sibling = st[parent].child, ![parent].child = elem]

\* Links the node after the new one.
Node_create_OffByOne(st, parent, type, value) ==
  LET node == [type |-> type, value |-> value, name |-> NONAME,
               parent |-> parent, sibling |-> NULL, child |-> NULL]
  IN  IF parent = NULL THEN Append(st, node)
      ELSE [Append(st, node) EXCEPT ![parent].child = Len(st) + 2]

Node_create(st, parent, type, value) ==
  LET new == Len(st) + 1
      node == [type |-> type, value |-> value, name |-> NONAME,
               parent |-> parent, sibling |-> NULL, child |-> NULL]
  IN  IF parent = NULL THEN Append(st, node)
      ELSE LIST_ADD(Append(st, node), parent, new)

Node_new_group(st, parent) == Node_create(st, parent, "group", 0)

Node_name(st, node, name) == [st EXCEPT ![node].name = name]

DataTypes == [n |-> "number", f |-> "float", s |-> "string", b |-> "blob"]

\* One character of the format of Node_cons.  The state is the store, the
\* root and cur_node; an item is a format character and its argument.  For
\* 'G' the argument is the index of a group already in the store, whose
\* parent link the code leaves as it is.
Node_cons_step(s, item) ==
  CASE item.c = "[" ->
         LET st == Node_new_group(s.st, s.cur)
         IN  [s EXCEPT !.st = st, !.cur = Len(st),
                       !.root = IF @ = NULL THEN Len(st) ELSE @]
    [] item.c \in DOMAIN DataTypes ->
         [s EXCEPT !.st = Node_create(@, s.cur, DataTypes[item.c], item.v)]
    [] item.c = "]" -> [s EXCEPT !.cur = s.st[s.cur].parent]
    [] item.c = "@" -> [s EXCEPT !.st = Node_name(@, s.st[s.cur].child, item.v)]
    [] item.c = "w" -> [s EXCEPT !.st = Node_name(@, s.cur, item.v),
                                 !.cur = s.st[s.cur].parent]
    [] item.c = "G" -> [s EXCEPT !.st = LIST_ADD(@, s.cur, item.v)]

ConsStart(st) == [st |-> st, root |-> NULL, cur |-> NULL]

Node_cons(st, format) == FoldLeft(Node_cons_step, ConsStart(st), format)

-----------------------------------------------------------------------------
(* Printing                                                                 *)

\* "%f" keeps six digits after the point; a float is counted here in units of
\* the seventh.
PrintedFloat(v) == 10 * ((v + 5) \div 10)

\* Takes an attribute for the word that closes a group.
ValueText_ForgetsAttr(node) ==
  CASE node.type = "blob" ->
         <<Lexeme("blob", Len(node.value))>> \o node.value \o <<Char("'"), Sep>>
    [] node.type = "string" ->
         <<Char("\"")>> \o node.value \o <<Char("\""), Sep>>
    [] node.type = "number" -> <<Lexeme("number", node.value), Sep>>
    [] node.type = "float" -> <<Lexeme("float", PrintedFloat(node.value)), Sep>>
    [] node.type = "group" ->
         IF node.name = NONAME THEN <<Char("]"), Sep>> ELSE <<>>

ValueText(node) ==
  CASE node.type = "blob" ->
         <<Lexeme("blob", Len(node.value))>> \o node.value \o <<Char("'"), Sep>>
    [] node.type = "string" ->
         <<Char("\"")>> \o node.value \o <<Char("\""), Sep>>
    [] node.type = "number" -> <<Lexeme("number", node.value), Sep>>
    [] node.type = "float" -> <<Lexeme("float", PrintedFloat(node.value)), Sep>>
    [] node.type = "group" ->
         IF node.name = NONAME \/ node.name \in Attrs
         THEN <<Char("]"), Sep>> ELSE <<>>

NameText(node) ==
  IF node.name = NONAME THEN <<>>
  ELSE <<Lexeme(IF node.name \in Attrs THEN "attr" ELSE "word", node.name), Sep>>

\* The older siblings come first, then the node: its bracket, its children,
\* its value and its name.
RECURSIVE Node_catbstr(_, _, _)
Node_catbstr(st, d, follow_sibs) ==
  IF d = NULL THEN <<>>
  ELSE LET node == st[d]
       IN  (IF follow_sibs THEN Node_catbstr(st, node.sibling, TRUE) ELSE <<>>)
           \o (IF node.type = "group" THEN <<Char("["), Sep>> ELSE <<>>)
           \o Node_catbstr(st, node.child, TRUE)
           \o ValueText(node)
           \o NameText(node)

Node_bstr(st, d, follow_sibs) ==
  Append(Node_catbstr(st, d, follow_sibs), Char("\n"))

-----------------------------------------------------------------------------
(* Taking apart                                                             *)

\* NEXT() stays where it is at the end of a sibling list.
NextNode_FallsOff(st, d) == st[d].sibling

NextNode(st, d) == IF st[d].sibling # NULL THEN st[d].sibling ELSE d

Failed(s) == [s EXCEPT !.ok = FALSE, !.going = FALSE]

\* One character of the format of Node_decons.  UP() leaves the switch when
\* there is no parent, before the word of a 'w' is compared.
Node_decons_step(s, item) ==
  IF ~s.going THEN s
  ELSE IF s.cur = NULL THEN Failed(s)
  ELSE
    LET node == s.st[s.cur]
        up == node.parent
        Taken(v) == [s EXCEPT !.out = Append(@, <<item.v, v>>),
                              !.cur = NextNode(s.st, @)]
    IN  CASE item.c = "[" -> [s EXCEPT !.cur = node.child]
          [] item.c \in DOMAIN DataTypes ->
               IF node.type = DataTypes[item.c] THEN Taken(node.value) ELSE Failed(s)
          [] item.c = "]" ->
               [s EXCEPT !.cur = IF up = NULL THEN NULL ELSE NextNode(s.st, up)]
          [] item.c = "@" -> IF node.name = item.v THEN s ELSE Failed(s)
          [] item.c = "w" ->
               IF up = NULL THEN [s EXCEPT !.cur = NULL]
               ELSE IF s.st[up].name = item.v
                    THEN [s EXCEPT !.cur = NextNode(s.st, up)]
                    ELSE Failed(s)
          [] item.c = "G" -> Taken(s.cur)
          [] item.c = "." -> [s EXCEPT !.cur = NextNode(s.st, @)]

Node_decons(st, root, format) ==
  FoldLeft(Node_decons_step,
           [st |-> st, cur |-> root, ok |-> TRUE, going |-> TRUE, out |-> <<>>],
           format)

-----------------------------------------------------------------------------
(* Destroying                                                               *)

\* Node_destroy walks the tree in postorder with sibling as the left and
\* child as the right branch, on a path kept in arrays.  bad records a read of
\* a freed node, or the assertion on the length of the path.
RECURSIVE WalkDown(_, _)
WalkDown(st, w) ==
  IF w.cn = NULL THEN w
  ELSE WalkDown(st,
         [w EXCEPT !.path = Append(@, [node |-> w.cn, right |-> st[w.cn].child,
                                       pass |-> 0]),
                   !.cn = st[w.cn].sibling,
                   !.bad = @ \/ w.cn \in ToSet(w.freed)
                             \/ Len(w.path) + 1 >= MAX_TREE_DEEP])

RECURSIVE WalkUp(_)
\* Frees a node only on the second visit, which a leaf never gets.
WalkUp_LeavesLeaves(w) ==
  LET i == Len(w.path)
      top == w.path[i]
      freed == IF top.pass = 1 THEN Append(w.freed, top.node) ELSE w.freed
  IN  IF i > 1 /\ top.right = NULL
      THEN WalkUp([w EXCEPT !.freed = freed, !.path = Front(@)])
      ELSE [w EXCEPT !.freed = freed, !.cn = top.right,
                     !.path[i] = [top EXCEPT !.right = NULL, !.pass = @ + 1]]

WalkUp(w) ==
  LET i == Len(w.path)
      top == w.path[i]
      freed == IF top.pass = 1 \/ top.right = NULL
               THEN Append(w.freed, top.node) ELSE w.freed
  IN  IF i > 1 /\ top.right = NULL
      THEN WalkUp([w EXCEPT !.freed = freed, !.path = Front(@)])
      ELSE [w EXCEPT !.freed = freed, !.cn = top.right,
                     !.path[i] = [top EXCEPT !.right = NULL, !.pass = @ + 1]]

RECURSIVE Walk(_, _)
Walk(st, w) == IF w.cn = NULL \/ w.bad THEN w ELSE Walk(st, WalkUp(WalkDown(st, w)))

Node_destroy(st, root) ==
  Walk(st, [cn |-> root, path |-> <<>>, freed |-> <<>>, bad |-> FALSE])

-----------------------------------------------------------------------------
(* The value a node stands for, apart from where it is stored               *)

RECURSIVE Content(_, _)
\* The node d and the siblings behind it, oldest first.
Content(st, d) ==
  IF d = NULL THEN <<>>
  ELSE Append(Content(st, st[d].sibling),
              [type |-> st[d].type, value |-> st[d].value, name |-> st[d].name,
               children |-> Content(st, st[d].child)])

=============================================================================
