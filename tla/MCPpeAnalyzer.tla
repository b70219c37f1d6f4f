---------------------------- MODULE MCPpeAnalyzer ----------------------------
(* A small instance of PpeAnalyzer: a vest, and a respirator on the face. *)
EXTENDS PpeAnalyzer, TLC

Look(face, vest, respirator) ==
    [face |-> face, item |-> ("vest" :> vest @@ "respirator" :> respirator)]

\* Equipped, without a vest, without the respirator, the respirator under the
\* chin, without anything; and from the back, with and without a vest.
MCLooks ==
    {Look(TRUE, "worn", "worn"), Look(TRUE, "unseen", "worn"),
     Look(TRUE, "worn", "unseen"), Look(TRUE, "worn", "misplaced"),
     Look(TRUE, "unseen", "unseen"),
     Look(FALSE, "worn", "unseen"), Look(FALSE, "misplaced", "unseen")}
=============================================================================
