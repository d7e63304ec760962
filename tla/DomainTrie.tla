----------------------------- MODULE DomainTrie ------------------------------
(* component/trie: the table of host names behind hosts, fake-ip-filter,   *)
(* nameserver-policy and fallback domains.  A name is the sequence of its  *)
(* labels; a node is named by the labels from the root (the last label     *)
(* first) and holds data or nil.                                           *)
EXTENDS Naturals, SequencesExt

CONSTANTS
  Patterns,    \* what is inserted, each with itself as data
  DomainNames  \* what is searched for

VARIABLES trie,  \* node -> data; its domain is the set of nodes
          known  \* patterns inserted

trieVars == <<trie, known>>

RECURSIVE searchFrom(_, _, _)

Root     == <<>>
Nothing  == <<>>            \* nil data
NoNode   == <<"no node">>
TrieInit == trie = (Root :> Nothing) /\ known = {}

ValidAndSplitDomain(parts) ==
  IF Len(parts) = 1 THEN parts[1] # "" ELSE \A i \in 2..Len(parts) : parts[i] # ""

(* DomainTrie.insert: the nodes on the way to the leaf are made, the leaf is written. *)
insert(t, parts, data) ==
  LET leaf == Reverse(parts)
      way  == {SubSeq(leaf, 1, n) : n \in 0..Len(leaf)}
  IN  [n \in DOMAIN t \cup way |-> IF n = leaf THEN data ELSE IF n \in DOMAIN t THEN t[n] ELSE Nothing]
(* Fault: +.domain leaves the domain itself out. *)
InsertBelow(parts) ==
  /\ parts \notin known
  /\ IF ValidAndSplitDomain(parts)
     THEN /\ trie' = insert(trie, IF parts[1] = "+" THEN <<"">> \o Tail(parts) ELSE parts, parts)
          /\ known' = known \cup {parts}
     ELSE UNCHANGED trieVars
(* DomainTrie.Insert: a name that is not valid is refused; +.domain is the *)
(* domain and the dot wildcard below it.                                   *)
Insert(parts) ==
  /\ parts \notin known
  /\ IF ValidAndSplitDomain(parts)
     THEN /\ trie' = IF parts[1] = "+"
                     THEN insert(insert(trie, Tail(parts), parts), <<"">> \o Tail(parts), parts)
                     ELSE insert(trie, parts, parts)
          /\ known' = known \cup {parts}
     ELSE UNCHANGED trieVars

(* DomainTrie.search from a node: the child of the label, else that of the *)
(* wildcard, as far as either leads to a node, else the dot wildcard;      *)
(* NoNode if there is none.                                                *)
searchFrom(t, node, parts) ==
  IF parts = <<>> THEN node
  ELSE LET Under(label) == IF Append(node, label) \in DOMAIN t
                           THEN searchFrom(t, Append(node, label), Front(parts)) ELSE NoNode
           dot == Append(node, "")
       IN  IF Under(Last(parts)) # NoNode THEN Under(Last(parts))
           ELSE IF Under("*") # NoNode THEN Under("*")
           ELSE IF dot \in DOMAIN t THEN dot ELSE NoNode
Search(t, parts) ==
  IF ~ValidAndSplitDomain(parts) \/ parts[1] = "" THEN Nothing
  ELSE LET n == searchFrom(t, Root, parts) IN IF n = NoNode THEN Nothing ELSE t[n]

TrieNext == \E p \in Patterns : Insert(p)
TrieSpec == TrieInit /\ [][TrieNext]_trieVars

-----------------------------------------------------------------------------
Label(p, l) == p = l \/ p = "*"
Fits(p, name) == Len(p) = Len(name) /\ \A i \in DOMAIN p : Label(p[i], name[i])
(* What a pattern promises: its labels, any label for *, any one or more   *)
(* in front of a leading dot, any number in front of a leading +.          *)
Covers(p, name) ==
  LET rest == Tail(p)
      Behind == Len(name) > Len(rest) /\ Fits(rest, SubSeq(name, Len(name) - Len(rest) + 1, Len(name)))
  IN  CASE p[1] = "+" -> Behind \/ Fits(rest, name)
        [] p[1] = ""  -> Behind
        [] OTHER      -> Fits(p, name)
(* A longer pattern that ends in the name gives the name an empty node. *)
Shadowed(name) ==
  \E p \in known : /\ Len(p) > Len(name) /\ ~Covers(p, name)
                   /\ Fits(SubSeq(p, Len(p) - Len(name) + 1, Len(p)), name)

(* What Search finds belongs to a pattern that covers the name; a name     *)
(* inserted as it is finds its own data; and a name some pattern covers is *)
(* missed only when it lies on the way to a longer pattern.                *)
TrieFinds ==
  \A name \in DomainNames :
    LET found == Search(trie, name)
    IN  IF name[1] = "" THEN found = Nothing
        ELSE /\ found # Nothing => Covers(found, name)
             /\ name \in known => found = name \/ found = <<"+">> \o name
             /\ (found = Nothing /\ \E p \in known : Covers(p, name)) => Shadowed(name)
=============================================================================
