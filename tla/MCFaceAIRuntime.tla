--------------------------- MODULE MCFaceAIRuntime ---------------------------
(* Deployments: a working one, and one per reason not to be ready.            *)
EXTENDS FaceAIRuntime

CONSTANTS c1, c2, c3

Working == [enabled |-> TRUE, root |-> TRUE, cpu |-> TRUE, provider |-> TRUE, required |-> FALSE,
            detector |-> "not_configured", embedder |-> "not_configured"]

MCDeployments ==
    { Working,
      [Working EXCEPT !.enabled = FALSE],
      [Working EXCEPT !.cpu = FALSE],
      [Working EXCEPT !.detector = "configured"] }

=============================================================================
