------------------------------ MODULE MCOptions ------------------------------
(***************************************************************************)
(* The characters typed when TLC runs Options.                             *)
(***************************************************************************)
EXTENDS Options

\* "?" has several bytes, "k" is no unit of a duration and "d" none of a rate.
MCChars == {"0", "1", "2", "m", "M", "s", "h", "d", "k", "+", " ", "?"}

\* NUL, control-A, tab, newline, carriage return, 0, A, backslash, n, x, DEL
MCCodes == {0, 1, 9, 10, 13, 48, 65, 92, 110, 120, 127}
=============================================================================
