---- MODULE MCErc20Orders ----
EXTENDS Erc20OrdersProperties, TLC

====
