---------------------------------- MODULE Trie ----------------------------------
(***************************************************************************)
(* The spelling trie of Trie/src: a word is filed under a key, its lower-   *)
(* case form (Trie1) or the word without the characters - _ ( and )         *)
(* (Trie2); the node of a key counts the words filed there and shows the    *)
(* smallest of them.  A character is its code.  A node is named by its path *)
(* of child indices from the root.  The words are non-empty and of the      *)
(* alphabet of Codifications, and so are their keys.                        *)
(***************************************************************************)
EXTENDS Integers, Sequences, SequencesExt

CONSTANTS
    Words,      \* for each kind of trie the words used
    MaxOps      \* bound: operations

VARIABLES
    kind,       \* which of the two implementations of TrieElement is used
    nodes,      \* path -> node
    log         \* history: the operations and their words

trieVars == <<kind, nodes, log>>

Tilde == <<126>>
null == <<0>>

(* Codifications.encode: the place of a character in the alphabet, which    *)
(* follows the order of the codes; 0 outside of it.                         *)
Alphabet == <<33, 40, 41, 45>> \o [i \in 1 .. 10 |-> 47 + i] \o <<63>>
                \o [i \in 1 .. 26 |-> 64 + i] \o <<95>> \o [i \in 1 .. 26 |-> 96 + i]

encode(c) ==
    IF \E i \in DOMAIN Alphabet : Alphabet[i] = c
    THEN CHOOSE i \in DOMAIN Alphabet : Alphabet[i] = c
    ELSE 0

toLowerCase(c) == IF c \in 65 .. 90 THEN c + 32 ELSE c

(* toCharArray of the two kinds of element *)
toCharArray(k, s) ==
    IF k = "Trie1"
    THEN [i \in DOMAIN s |-> toLowerCase(s[i])]
    ELSE SelectSeq(s, LAMBDA c : c \notin {45, 95, 40, 41})

(* String.compareTo(..) < 0 *)
Smaller(s, t) ==
    \/ IsStrictPrefix(s, t)
    \/ \E i \in DOMAIN s \cap DOMAIN t :
            /\ s[i] < t[i]
            /\ \A j \in 1 .. i - 1 : s[j] = t[j]

lexicographicalOrder(oldS, newS) == IF Smaller(newS, oldS) THEN newS ELSE oldS

Path(word) ==
    LET letters == toCharArray(kind, word) IN [i \in DOMAIN letters |-> encode(letters[i])]

TrieNode == [count |-> 0, string |-> null, fullWord |-> FALSE]

TrieInit ==
    /\ kind \in DOMAIN Words
    /\ nodes = (<<>> :> [TrieNode EXCEPT !.string = <<>>])
    /\ log = <<>>

add(word) ==
    LET path == Path(word)
        walked == nodes @@ [p \in {SubSeq(path, 1, i) : i \in 1 .. Len(path)} |-> TrieNode]
        node == walked[path]
    IN  /\ nodes' = [walked EXCEPT ![path] =
                [count |-> node.count + 1,
                 string |-> IF node.string = null
                            THEN word ELSE lexicographicalOrder(node.string, word),
                 fullWord |-> TRUE]]
        /\ log' = Append(log, <<"add", word>>)

search(word) == IF Path(word) \in DOMAIN nodes THEN {Path(word)} ELSE {}

(* Mutated form: an emptied node keeps its string. *)
removeKeepsString(word) ==
    /\ nodes' = [p \in DOMAIN nodes |->
            IF p \notin search(word)
            THEN nodes[p]
            ELSE IF nodes[p].count > 1
                 THEN [nodes[p] EXCEPT !.count = @ - 1]
                 ELSE [nodes[p] EXCEPT !.count = 0, !.fullWord = FALSE]]
    /\ log' = Append(log, <<"remove", word>>)

(* A prefix that is no word may be removed too: its node is overwritten.    *)
remove(word) ==
    /\ nodes' = [p \in DOMAIN nodes |->
            IF p \notin search(word)
            THEN nodes[p]
            ELSE IF nodes[p].count > 1
                 THEN [nodes[p] EXCEPT !.count = @ - 1]
                 ELSE [count |-> 0, string |-> Tilde, fullWord |-> FALSE]]
    /\ log' = Append(log, <<"remove", word>>)

count(word) == IF search(word) = {} THEN 0 ELSE nodes[Path(word)].count

(* The walk over the children, in the order of their indices, below the     *)
(* node of the prefix.                                                      *)
wordsWithSamePrefix(path) ==
    SetToSortSeq({p \in DOMAIN nodes :
                    /\ IsPrefix(path, p)
                    /\ nodes[p].string # null /\ nodes[p].fullWord /\ nodes[p].count > 0},
                 Smaller)

getSortedElements(prefix) ==
    IF search(prefix) = {}
    THEN <<>>
    ELSE LET found == wordsWithSamePrefix(Path(prefix))
         IN  [i \in DOMAIN found |-> nodes[found[i]].string]

TrieNext ==
    /\ Len(log) < MaxOps
    /\ UNCHANGED kind
    /\ \E word \in Words[kind] : add(word) \/ remove(word)

-----------------------------------------------------------------------------
(* Property. *)

Key(word) == toCharArray(kind, word)
Keys == {Key(word) : word \in Words[kind]}

(* How many words of a key are left after the first n operations. *)
Left(key) ==
    LET left[n \in 0 .. Len(log)] ==
            IF n = 0 THEN 0
            ELSE IF Key(log[n][2]) # key THEN left[n - 1]
            ELSE IF log[n][1] = "add" THEN left[n - 1] + 1
            ELSE IF left[n - 1] = 0 THEN 0 ELSE left[n - 1] - 1
    IN  left

(* The words of a key added since the key was last without any. *)
Recent(key) ==
    {log[n][2] : n \in {m \in DOMAIN log :
        /\ Key(log[m][2]) = key
        /\ log[m][1] = "add"
        /\ \A later \in m .. Len(log) : Left(key)[later] > 0}}

(* Through any sequence of additions and removals, also of words that are   *)
(* prefixes of others or that were never added, the trie counts for each    *)
(* key the words left, and lists for every prefix, in the order of the      *)
(* keys, one word for each key that has any: the smallest of those added    *)
(* since the key was last without any.  In particular a word that returns   *)
(* after its key had been emptied is not hidden by an older one.            *)
ListsTheBag ==
    log # <<>> => \A word \in Words[kind] :
        LET kept == SetToSortSeq({k \in Keys : IsPrefix(Key(word), k) /\ Left(k)[Len(log)] > 0},
                                 Smaller)
            list == getSortedElements(word)
        IN  /\ count(word) = Left(Key(word))[Len(log)]
            /\ Len(list) = Len(kept)
            /\ \A i \in DOMAIN kept :
                    /\ list[i] \in Recent(kept[i])
                    /\ \A other \in Recent(kept[i]) : ~Smaller(other, list[i])
=============================================================================
