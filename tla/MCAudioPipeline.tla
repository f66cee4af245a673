---------------------------- MODULE MCAudioPipeline ----------------------------
(* A small instance of AudioPipeline for TLC.                              *)
EXTENDS AudioPipeline

\* A clash is for good, and the properties that ask for none hold from then on.
NoClash == ~clash
=============================================================================
