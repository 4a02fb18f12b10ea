------------------------------ MODULE SpiPort ------------------------------
(***************************************************************************)
(* The SPI peripherals: the claim table shared by the two roles            *)
(* (stm32/project/drivers/spi/src/spi.c) and what the master and slave     *)
(* drivers keep per peripheral (drivers/spi_master, drivers/spi_slave).    *)
(*                                                                         *)
(* The operators map the record of one peripheral to the one after the     *)
(* call.  Byte-by-byte shifting is abstracted to "busy until the transfer  *)
(* completes".                                                             *)
(***************************************************************************)
EXTENDS Integers, FiniteSets

CONSTANTS
    SPI_PERIPH_COUNT,   \* 2 in the firmware
    SpiTxBufs           \* contents a slave is asked to serve

ASSUME SpiAssumption == SPI_PERIPH_COUNT \in Nat \ {0}

VARIABLE spi

SpiPeriphs == 0 .. (SPI_PERIPH_COUNT - 1)

SpiFree == [role |-> "NONE", master_init |-> FALSE, busy |-> FALSE,
            slave_init |-> FALSE, tx |-> "empty"]

SpiTypeOK ==
    spi \in [SpiPeriphs -> [role : {"NONE", "MASTER", "SLAVE"}, master_init : BOOLEAN,
                            busy : BOOLEAN, slave_init : BOOLEAN, tx : SpiTxBufs \cup {"empty"}]]

SpiInit == spi = [p \in SpiPeriphs |-> SpiFree]

spi_claim_err(s) == IF s.role # "NONE" THEN "ERR_PERIPHERAL_BUSY" ELSE "ERR_SUCCESS"
spi_claim(s, role) == [s EXCEPT !.role = role]
spi_release(s) == [s EXCEPT !.role = "NONE"]

\* Of the driver's own argument checks none can fail: the backends validate.
spi_master_init(s) == [spi_claim(s, "MASTER") EXCEPT !.master_init = TRUE, !.busy = FALSE]
spi_master_deinit(s) == [spi_release(s) EXCEPT !.master_init = FALSE, !.busy = FALSE]

spi_master_write_err(s) ==
    IF ~s.master_init THEN "ERR_INVALID_PARAMETER"
    ELSE IF s.busy THEN "ERR_PERIPHERAL_BUSY"
    ELSE "ERR_SUCCESS"

spi_slave_init(s) == [spi_claim(s, "SLAVE") EXCEPT !.slave_init = TRUE]
spi_slave_deinit(s) == [spi_release(s) EXCEPT !.slave_init = FALSE, !.tx = "empty"]
spi_slave_set_tx_err(s) == IF s.slave_init THEN "ERR_SUCCESS" ELSE "ERR_INVALID_PARAMETER"
spi_slave_set_tx(s, buf) == IF s.slave_init THEN [s EXCEPT !.tx = buf] ELSE s
=============================================================================
