---------------------------- MODULE MCCatalogue ----------------------------
EXTENDS Catalogue
=============================================================================
