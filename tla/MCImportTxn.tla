---------------------------- MODULE MCImportTxn ----------------------------
EXTENDS ImportTxn

=============================================================================
