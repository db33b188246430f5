---- MODULE MCOrderProcess ----
EXTENDS OrderProcess
====
