---- MODULE MCConnector ----
EXTENDS ConnectorProperties, TLC
====
