----------------------------- MODULE MCSourceIndex -----------------------------
(* A file of the container and one of a nested repository; a content of    *)
(* blank lines, which has no window, and one of two windows.               *)
EXTENDS SourceIndex

CONSTANTS w1, w2

MCContent == {{}, {w1, w2}}
================================================================================
