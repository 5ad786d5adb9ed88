------------------------------ MODULE MCBuzzer ------------------------------
EXTENDS Buzzer
=============================================================================
