----------------------------- MODULE SiteSearch -----------------------------
(***************************************************************************)
(* What the documentation search promises, without any index: authors      *)
(* change the sources, a build publishes them as the site, and a reader    *)
(* who opens a page gets the answers of the site as it was published at   *)
(* that moment, or of an earlier published site whose answers a cache     *)
(* still holds, and keeps them while the site moves on.  The answers are   *)
(* the title of each page, the pages whose body or headings have a word,   *)
(* among them those whose headings have it, and the pages that have a      *)
(* heading.                                                                *)
(***************************************************************************)
EXTENDS Pages

VARIABLES
    src,    \* the documentation sources
    site,   \* the published site
    older,  \* {} or {the answers of an earlier published site}
    view    \* {} before the reader loaded the search, else {its answers}

svars == <<src, site, older, view>>

HeadWordPages(pages, w) ==
    {d \in DOMAIN pages : \E j \in DOMAIN pages[d].heads : w \in TitleWords[pages[d].heads[j]]}

Answers(pages) ==
    [titles    |-> [d \in DOMAIN pages |-> pages[d].heads[1]],
     words     |-> [w \in Words |->
                      {d \in DOMAIN pages : w \in pages[d].body} \cup HeadWordPages(pages, w)],
     headwords |-> [w \in Words |-> HeadWordPages(pages, w)],
     headings  |-> [h \in Titles |->
                      {d \in DOMAIN pages : \E j \in DOMAIN pages[d].heads : pages[d].heads[j] = h}]]

Init ==
    /\ src \in Tree
    /\ site = src
    /\ older = {}
    /\ view = {}

Author ==
    /\ src' \in Tree
    /\ UNCHANGED <<site, older, view>>

Publish ==
    /\ site' = src
    /\ older' \in {older, {Answers(site)}}
    /\ UNCHANGED <<src, view>>

Load ==
    /\ \E a \in {Answers(site)} \cup older : view' = {a}
    /\ UNCHANGED <<src, site, older>>

Next == Author \/ Publish \/ Load

Spec == Init /\ [][Next]_svars

=============================================================================
