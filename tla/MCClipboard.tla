----------------------------- MODULE MCClipboard -----------------------------
EXTENDS ClipboardSync
=============================================================================
