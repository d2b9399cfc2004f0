----------------------------- MODULE MCExample -----------------------------
(***************************************************************************)
(* The example peers, prompt in their calls as in MCSignalling; what their *)
(* callbacks do is in every order.                                         *)
(***************************************************************************)
EXTENDS ExamplePeers, MCSignalling

PromptExampleNext ==
    LET ready == {c \in Clients : CanCall(c)}
    IN  IF ready = {} THEN ExampleNext
        ELSE \E c \in ready : PromptCall(c) /\ UNCHANGED exampleVars

PromptExampleSpec ==
    ExampleInit /\ [][PromptExampleNext]_allVars /\ ExampleFairness
=============================================================================
