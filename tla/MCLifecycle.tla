---- MODULE MCLifecycle ----
EXTENDS Lifecycle
CONSTANTS r1, j
====
