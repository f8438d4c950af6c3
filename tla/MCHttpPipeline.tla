---------------------------- MODULE MCHttpPipeline ----------------------------
(* A small instance of HttpPipeline.                                         *)
EXTENDS HttpPipeline
=============================================================================
