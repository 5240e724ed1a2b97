-------------------------- MODULE MCKafkaForwarder --------------------------
EXTENDS KafkaForwarder
=============================================================================
