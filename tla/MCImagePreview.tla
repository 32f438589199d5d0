--------------------------- MODULE MCImagePreview ---------------------------
EXTENDS ImagePreview
=============================================================================
