---------------------------- MODULE MCMemoryMap -----------------------------
\* All memory maps of up to three descriptors over a small address space.
EXTENDS MemoryMap
=============================================================================
