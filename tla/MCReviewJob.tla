---------------------------- MODULE MCReviewJob -----------------------------
(* Small instances of ReviewJob for TLC: two or three attempts, up to two  *)
(* batches of files, and two LLM calls per batch.                          *)
EXTENDS ReviewJob
=============================================================================
