---------------------------- MODULE MC_Ingestion ----------------------------
(***************************************************************************)
(* Instances of Ingestion for TLC: n1 and b1 are one document, filed on    *)
(* both exchanges; b2 is another one; p1 and p2 are notices of the same    *)
(* company without attachment; u1 is a row of a company outside the        *)
(* universe; e1 and e2 are articles of an RSS feed.                        *)
(***************************************************************************)
EXTENDS Ingestion, TLC

CONSTANTS n1, p1, p2, b1, b2, u1, e1, e2

SourceNames == {"NSE", "BSE", "ET"}
Filed == {n1, b1, b2, u1}
Press == {e1, e2}
ItemNames == Filed \cup Press \cup {p1, p2}

Origin == [i \in ItemNames |->
             CASE i \in Press          -> "ET"
               [] i \in {n1, p1, p2}   -> "NSE"
               [] OTHER                -> "BSE"]

Company == [i \in ItemNames |-> IF i = u1 THEN "other" ELSE "acme"]

\* Text and gist of a document; each of the others has its own gist.
Text == [i \in ItemNames |-> IF i = b1 THEN n1
                             ELSE IF i \in Filed THEN i ELSE NoText]
Gist == [i \in ItemNames |-> IF i = b1 THEN n1 ELSE i]

\* BSE is read page by page; the others have one page that holds everything.
Rows == [s \in SourceNames |-> IF s = "BSE" THEN 1 ELSE 2]
Cap  == [s \in SourceNames |-> IF s = "BSE" THEN 2 ELSE 1]

OneDay == {{n1, b1, b2}, {b2, u1}, Press}
OnlyBse == {{b1, b2}}
OnlyNotices == {{p1, p2}}

=============================================================================
