----------------------------- MODULE MCWritable ------------------------------
EXTENDS Writable
==============================================================================
