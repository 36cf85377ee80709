------------------------------- MODULE MCShell -------------------------------
(***************************************************************************)
(* Shell over an alphabet of three keys, in which every command is one or  *)
(* two keys long, so that one is the beginning of another; "c" is cat and  *)
(* the path of the file, which is longer than cat's buffer, "e" is echo.   *)
(***************************************************************************)
EXTENDS Shell, TLC

CONSTANTS c, e, space, b1, b2, hello, other, cut, none, blank, nul, noline,
          banner_, prompt_, help_, unknown_, usage_, error_, ok_, fail_, newline_,
          zero, one, two, three, four, five, six, seven, eight, nine

MCBytes == {c, e, space, b1, b2, nul, banner_, prompt_, help_, unknown_, usage_, error_, ok_, fail_, newline_}
             \cup {zero, one, two, three, four, five, six, seven, eight, nine}
MCText == <<b1, b2, b1>>
MCDigit == 0 :> zero @@ 1 :> one @@ 2 :> two @@ 3 :> three @@ 4 :> four
           @@ 5 :> five @@ 6 :> six @@ 7 :> seven @@ 8 :> eight @@ 9 :> nine
MCcat == <<c>>
MCecho == <<e>>
MChelp == <<c, c>>
MCpid == <<c, e>>
MCmemtest == <<e, c>>
MCexit == <<e, e>>
MCbanner == <<banner_>>
MCprompt == <<prompt_>>
MChelp_text == <<help_, newline_>>
MCunknown == <<unknown_>>
MCusage == <<usage_>>
MCerror == <<error_>>
MCok == <<ok_>>
MCfail == <<fail_>>
MCnewline == <<newline_>>

=============================================================================
