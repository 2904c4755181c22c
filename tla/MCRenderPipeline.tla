--------------------------- MODULE MCRenderPipeline ---------------------------
(***************************************************************************)
(* One resource, a few commands and a limit of one queued command buffer.  *)
(***************************************************************************)
EXTENDS RenderPipeline
==============================================================================
