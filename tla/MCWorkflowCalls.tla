-------------------------- MODULE MCWorkflowCalls --------------------------
EXTENDS WorkflowCalls
CONSTANTS a, b
=============================================================================
