------------------------------ MODULE StandaloneMC -----------------------------
(* The three programs that run by themselves: a behaviour is of one of them. *)
EXTENDS StandaloneInv, Trie

VARIABLE program

(* Games that begin where the macro board is about to get interesting: a     *)
(* board won by the move that sends to it, a second diagonal, and a game     *)
(* of 36 moves with a full board that nobody has won.                        *)
Games == {
    <<>>,
    <<<<4, 6>>, <<4, 2>>, <<4, 7>>, <<4, 5>>>>,
    <<<<7, 4>>, <<5, 4>>, <<6, 5>>, <<2, 7>>>>,
    <<<<6, 3>>, <<1, 0>>, <<3, 0>>, <<2, 0>>>>,
    <<<<4, 7>>, <<4, 3>>, <<5, 0>>, <<8, 2>>, <<6, 6>>, <<2, 2>>, <<6, 8>>, <<0, 7>>, <<2, 3>>,
      <<7, 2>>, <<4, 8>>, <<5, 8>>, <<6, 7>>, <<0, 4>>, <<0, 3>>, <<0, 2>>, <<0, 6>>, <<0, 1>>,
      <<1, 5>>, <<3, 6>>, <<1, 0>>, <<4, 0>>, <<3, 2>>, <<1, 7>>, <<3, 5>>, <<2, 8>>, <<2, 7>>,
      <<6, 5>>, <<1, 8>>, <<3, 8>>, <<2, 6>>, <<8, 0>>, <<6, 2>>, <<1, 6>>, <<3, 1>>, <<0, 5>>>>}

(* Ab, aB, a, ab0 under their lower case; ab, (ab), a-b, a and _Z without    *)
(* the marks.                                                                *)
SomeWords ==
    [Trie1 |-> {<<65, 98>>, <<97, 66>>, <<97>>, <<97, 98, 48>>},
     Trie2 |-> {<<97, 98>>, <<40, 97, 98, 41>>, <<97, 45, 98>>, <<97>>, <<95, 90>>}]

Init ==
    /\ GameInit /\ TrieInit /\ ClustersInit
    /\ program \in {"game", "trie", "clusters"}
    /\ program = "game" \/ opening = <<>>
    /\ program = "trie" \/ kind = "Trie1"
Next ==
    /\ UNCHANGED program
    /\ \/ program = "game" /\ GameNext /\ UNCHANGED <<trieVars, clusterVars>>
       \/ program = "trie" /\ TrieNext /\ UNCHANGED <<gameVars, clusterVars>>
       \/ program = "clusters" /\ ClustersNext /\ UNCHANGED <<gameVars, trieVars>>
=============================================================================
