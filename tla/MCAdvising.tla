----------------------------- MODULE MCAdvising -----------------------------
EXTENDS Advising, TLC

CONSTANTS h1, h2, hourly, digest, button, f1, f2, i1, i2, k1, vpn, lan, ink, t1, t2, sam, kim, word

\* Two texts of one category, and one of another that is nearer to one of them.
MCCategory == vpn :> "net" @@ lan :> "net" @@ ink :> "print"
MCNear == vpn :> (vpn :> 3 @@ lan :> 1 @@ ink :> 0)
          @@ lan :> (vpn :> 1 @@ lan :> 3 @@ ink :> 2)
          @@ ink :> (vpn :> 0 @@ lan :> 2 @@ ink :> 3)
MCAtFirst == [i \in {i1, i2, k1} |-> [text |-> IF i = i1 THEN vpn ELSE IF i = i2 THEN ink ELSE lan,
                                     closed |-> TRUE, noted |-> TRUE]]

\* Up to two words: a name, with and without its keyword, another name, a word of no matter.
Words == {[word |-> sam, keyed |-> TRUE]}
         \cup {[word |-> w, keyed |-> FALSE] : w \in {sam, kim, word}}
MCTexts   == UNION {[1..n -> Words] : n \in 0..2}
MCContent == t1 :> [ticket : MCTexts, kb : MCTexts]
             @@ t2 :> {[ticket |-> <<[word |-> word, keyed |-> TRUE]>>, kb |-> <<>>]}
MCSection == <<"ticket", "kb">>
MCPattern == <<[label |-> "EMAIL", words |-> {sam, kim}]>>
MCAnswer  == {[action |-> "REASSIGN", target |-> "net", confidence |-> 90],
              [action |-> "REASSIGN", target |-> "nowhere", confidence |-> 90],
              [action |-> "RESOLVE", target |-> "net", confidence |-> 40],
              [action |-> "NO_ACTION_NEEDED", target |-> NoTarget, confidence |-> 70]}

\* The two inputs are alike: h1 is the one that is answered first.
FirstIsFirst == rec[h2].id # 0 => rec[h1].id = 1
=============================================================================
