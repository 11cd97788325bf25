--------------------------- MODULE MCExtractionJob ---------------------------
EXTENDS ExtractionJob, TLC

MCContent == {"content"}
MCBoth == {"content", "screenshot_ocr"}
RunnerSymmetry == Permutations(Runners)
=============================================================================
