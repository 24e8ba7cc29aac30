----------------------------- MODULE Converters -----------------------------
(* scripts/convert.py: the converter of each model family, and what the      *)
(* loader makes of its files (GgufLoad).                                     *)
EXTENDS GgufLoad

LocalFamilies == {"ijepa", "hfvit", "lewm", "hjepa"}
AllFamilies == LocalFamilies \cup {"vjepa2", "vjepa2_1", "vjepa2_ac", "levjepa"}
NoTensors == {}

Rows(f, c, ckpt) ==
    CASE f = "ijepa" -> IjepaRows(c, ckpt)      [] f = "hfvit" -> HfvitRows(c, ckpt)
      [] f = "lewm" -> LewmRows(c, ckpt)        [] f = "hjepa" -> HjepaRows(c, ckpt)
      [] f = "vjepa2" -> Vjepa2Rows(c, ckpt)    [] f = "vjepa2_1" -> Vjepa21Rows(c, ckpt)
      [] f = "vjepa2_ac" -> AcRows(c, ckpt)     [] f = "levjepa" -> LevjepaRows(c, ckpt)
Refuses(f, c, ckpt) ==
    CASE f = "ijepa" -> IjepaRefuses(c, ckpt)   [] f = "hfvit" -> HfvitRefuses(c, ckpt)
      [] f = "lewm" -> LewmRefuses(c, ckpt)     [] f = "hjepa" -> HjepaRefuses(c, ckpt)
      [] f = "vjepa2_1" -> Vjepa21Refuses(c, ckpt) [] f = "vjepa2_ac" -> AcRefuses(c, ckpt)
      [] OTHER -> FALSE
Drops(f, c) ==
    CASE f = "lewm" -> LewmDrops [] f = "hjepa" -> HjepaDrops(c) [] OTHER -> NoTensors
Tolerates(f) ==
    CASE f = "ijepa" -> IjepaTolerates [] f = "hfvit" -> HfvitTolerates [] f = "lewm" -> LewmTolerates
      [] f = "hjepa" -> HjepaTolerates [] f = "vjepa2_ac" -> AcTolerates [] OTHER -> NoTensors
Keys(f, c, ckpt) ==
    CASE f = "ijepa" -> IjepaKeys(c, ckpt)      [] f = "hfvit" -> HfvitKeys(c, ckpt)
      [] f = "lewm" -> LewmKeys(c, ckpt)        [] f = "hjepa" -> HjepaKeys(c, ckpt)
      [] f = "vjepa2" -> Vjepa2Keys(c, ckpt)    [] f = "vjepa2_1" -> Vjepa21Keys(c, ckpt)
      [] f = "vjepa2_ac" -> AcKeys(c, ckpt)     [] f = "levjepa" -> LevjepaKeys(c, ckpt)
=============================================================================
