--------------------------- MODULE MCDecomposeRoute ---------------------------
(* Two images; the options in combinations that pair each with each.        *)
EXTENDS DecomposeRoute

Two == {"main", "cp"}

Option(noSymbol, noThumb, noTypes, prune, main) ==
    [noSymbol |-> noSymbol, noThumb |-> noThumb, noTypes |-> noTypes,
     prune |-> prune, main |-> main]
Pairwise == {Option(FALSE, FALSE, FALSE, FALSE, "main"),
             Option(FALSE, TRUE, FALSE, TRUE, "none"),
             Option(FALSE, FALSE, TRUE, TRUE, "none"),
             Option(TRUE, FALSE, FALSE, TRUE, "main"),
             Option(TRUE, TRUE, FALSE, FALSE, "none")}

NoDecoder == {"decode_tokens", "decode_rf", "hardware_config"}
=============================================================================
