--------------------------- MODULE MC_SearchIndex ---------------------------
(***************************************************************************)
(* A small instance of SearchIndex: two document names, two words, three  *)
(* headings, at most two headings a page.  t1 and t2 slug to the same      *)
(* identifier (in the file "2D Orthogonal Grid" and "3D Orthogonal Grid"   *)
(* both give d-orthogonal-grid, in two pages; here they may share a page); *)
(* nothing is left of t3 as a slug, and it has no indexed word.  Pages are *)
(* drawn from MC_Page: a page repeating a heading (like "Export the mesh"  *)
(* in pages 18 and 19), pages whose headings collide, pages with section   *)
(* titles whose words the page title does not have, body words that are   *)
(* heading words of the page (w1 of the first page) and body words that    *)
(* are not (w2 of the first page, w1 of the last).                         *)
(***************************************************************************)
EXTENDS SearchIndex

CONSTANTS w1, w2, t1, t2, t3

MC_Words == {w1, w2}
MC_Titles == {t1, t2, t3}
MC_TitleWords == [t \in MC_Titles |-> CASE t = t1 -> {w1}
                                        [] t = t2 -> {w2}
                                        [] t = t3 -> {}]
MC_Slug == [t \in MC_Titles |-> IF t = t3 THEN "" ELSE "d-orthogonal-grid"]

MC_Page ==
    { [heads |-> <<t1>>, body |-> {w1, w2}],
      [heads |-> <<t1, t1>>, body |-> {}],
      [heads |-> <<t2, t1>>, body |-> {w1, w2}],
      [heads |-> <<t3, t2>>, body |-> {w1}] }

(***************************************************************************)
(* The pages of the refinement run: those of MC_Page but the one that      *)
(* repeats a heading, which the answers (sets of pages) cannot tell from   *)
(* a page that has it once.                                                *)
(***************************************************************************)
MC_SitePage == MC_Page \ {[heads |-> <<t1, t1>>, body |-> {}]}
=============================================================================
