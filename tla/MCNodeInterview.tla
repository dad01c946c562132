-------------------------- MODULE MCNodeInterview ---------------------------
(***************************************************************************)
(* NodeInterview on networks of a listening node, 1, and a sleeping one, 2. *)
(***************************************************************************)
EXTENDS NodeInterview, TLC

\* Each of the nodes not known well enough, known, or included later.
WorksCaches ==
    {1 :> "NodeInfo" @@ 2 :> "Complete", 1 :> "Complete" @@ 2 :> "ProtocolInfo",
     2 :> "Complete"}
=============================================================================
