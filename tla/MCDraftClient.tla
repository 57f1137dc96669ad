---------------------------- MODULE MCDraftClient ----------------------------
(* One draft, two tabs of two users.                                        *)
EXTENDS DraftClient, TLC

Symmetry == Permutations(Sessions)

\* What an edit was composed on, and by whom, is history: no step looks at it.
WithoutHistory ==
    << draft, logout, inbox, previews,
       [s \in Sessions |->
          [tab[s] EXCEPT !.base = 0, !.kept = IF @ = {} THEN {} ELSE {0}]] >>

=============================================================================
